---- MODULE Spec2Model ----
(***************************************************************************)
(* Verification model of fractal-xplorer's rendering core:                 *)
(*   - ThreadPool (thread_pool.hpp): task queue, pending counter, mutex,   *)
(*     two condition variables, worker_loop, submit, wait, destructor;     *)
(*   - CpuRenderer::render / render_tile (cpu_renderer.cpp): tile loops,   *)
(*     per-tile pixel writes on the 4-wide vector path and scalar path;    *)
(*   - scalar_kernel (fractal.hpp) and avx_kernel (cpu_renderer_avx.cpp):  *)
(*     escape-time iteration, modelled over a small binary floating-point  *)
(*     format with round-to-nearest-even after every operation.            *)
(***************************************************************************)
EXTENDS Integers, Sequences, FiniteSets, TLC

\* ------------------------------------------------------------------------
\* Bounds of the model
\* ------------------------------------------------------------------------
MaxWorkers == 2
MaxW == 5
MaxH == 3
MaxSpurious == 1
MaxRasterW == 6
MaxRasterH == 3
MaxTileW == 5
MaxTileH == 2
Precision == 4
FracBits == 4
MaxIter == 4
MaxCoord == 6
MaxTasks == 3
MaxExp == 4

\* Widths and heights a caller may hand to render (buf.width, buf.height).
Widths == {-1, 0, 1, MaxW - 1, MaxW}
Heights == {-1, 0, 1, MaxH}

\* Tile sizes <<TILE_W, TILE_H>>: the program's 64 x 64, and a small one that
\* splits the larger rasters into several tiles, the last ones clipped, while
\* leaving room for a group of 4 pixels in a tile row.
TileSizes == {<<4, 2>>, <<64, 64>>}

\* Abstract identities of the ViewState value copied into each task closure.
Configs == {1}

\* Pixels per vector-kernel call (px += 4, smooth4[4]).
LANES == 4

MainThread == 0
NoOwner == -1

Min(a, b) == IF a < b THEN a ELSE b

VARIABLES
    \* ---- ThreadPool fields ----
    workers,      \* ids of the worker threads (workers vector)
    tasks,        \* std::deque of task closures
    pending,      \* int pending
    stopping,     \* bool stopping
    mtx,          \* owner of std::mutex mtx, NoOwner when free
    cv_task,      \* threads blocked in cv_task.wait
    cv_done,      \* threads blocked in cv_done.wait
    wpc,          \* program counter of each worker in worker_loop
    wtask,        \* the closure a worker holds in its local 'task'
    \* ---- CpuRenderer fields and the caller's frame ----
    use_avx2,     \* bool use_avx2
    avx2_active,  \* bool avx2_active
    TILE_W,       \* constexpr TILE_W (64 in the program)
    TILE_H,       \* constexpr TILE_H
    mpc,          \* program counter of the calling thread
    vs,           \* the ViewState passed to render
    bufW,         \* buf.width
    bufH,         \* buf.height
    pixels,       \* buf.pixels, indexed py*W + px
    tx,           \* loop variable tx of render
    ty,           \* loop variable ty of render
    \* ---- history variables ----
    submitted,    \* number of submit() calls completed in this render call
    tiles,        \* the task closures pushed by this render call, in order
    ran,          \* per task pushed in this render call: how often it was executed
    wcount,       \* per pixel index: writes during this render call
    waited,       \* this render call entered ThreadPool::wait
    reused,       \* this render call runs on a pool that served a render before
    spurious,     \* spurious wake-ups since the last render call began
    \* ---- arguments and results of the iteration kernels ----
    formula,      \* vs.formula
    julia_mode,   \* vs.julia_mode
    julia_re,     \* vs.julia_re
    julia_im,     \* vs.julia_im
    re0,          \* real coordinate of the first pixel of a group of 4
    scale,        \* complex-plane distance between neighbouring pixels
    im,           \* imaginary coordinate of the pixel row
    max_iter,     \* vs.max_iter of two successive passes over the group
    smooth,       \* per pass: the scalar kernel's result for each of the 4 pixels
    smooth4,      \* per pass: the 4 results the vector kernel stored
    \* ---- CpuRenderer's pool bookkeeping and the pool being replaced ----
    thread_count,   \* int thread_count
    hw_concurrency, \* int hw_concurrency
    old_wpc,        \* program counter of each worker of the pool being deleted
    old_stopping,   \* bool stopping of the pool being deleted
    old_cv_task,    \* workers of the pool being deleted blocked in cv_task.wait
    inflight,       \* history: tasks held by workers when ~ThreadPool set stopping
    stop_wpc,       \* history: each worker's position when ~ThreadPool set stopping
    stop_queue,     \* history: tasks in the queue when ~ThreadPool set stopping
    stc_arg,        \* history: the argument of the last set_thread_count call
    stc_n,          \* set_thread_count's parameter n, after 'if (n < 1) n = ...'
    \* ---- exponents of the configuration and the kernels the dispatches select ----
    multibrot_exp,    \* vs.multibrot_exp
    multibrot_exp_f,  \* vs.multibrot_exp_f
    slow_int_n,       \* render_tile's slow_int_n, <<>> before it is computed
    scalar_call,      \* the kernel the scalar switch of render_tile called
    vector_call,      \* the kernel the vector smooth switch of render_tile called
    lyap_slow_int_n,  \* avx_lyapunov_4's slow_int_n, <<>> before it is computed
    lyap_call,        \* the kernel avx_lyapunov_4 called
    \* ---- results observed by the callers of the kernels and of the helpers ----
    smooth_conj,      \* the scalar kernel's results for the 4 pixels mirrored at the real axis
    lyap_out,         \* scalar_lyapunov_iter's results for the 4 pixels
    lyap_out4,        \* the 4 results avx_lyapunov_4 stored
    log_args,         \* the real-exponent scalar kernel's results for the 4 pixels, with the
                      \* history of the |z|^2 arguments its logarithms were evaluated on
    log_args4,        \* the same for the 4 lanes of the real-exponent vector kernel
    orbit,            \* the vector of points compute_orbit returned
    kernel_run,       \* a vector kernel call in progress: its registers at the top of
                      \* iteration i of the loop, <<>> when none is followed
    lut_reads,        \* the last call of palette_color or lyapunov_color: its arguments and
                      \* the index it read g_palette_lut[palette] at
    \* ---- AppState and the statics of draw_benchmark_dialog ----
    view,             \* app.vs, the ViewState of the main view
    view_call,        \* history: the arguments of the last reset_view_keep_params call
    dirty,            \* app.dirty
    popup_open,       \* the modal popup "Benchmark##dlg" is open
    bench_running,    \* static bool bench_running
    bench_done,       \* static bool bench_done
    bench_phase,      \* static int bench_phase (0 = vector, 1 = scalar)
    bench_ti,         \* static int bench_ti (thread index, 0-based)
    bench_rep,        \* static int bench_rep (repetition 0-3)
    bench_saved_tc,   \* static int bench_saved_tc
    bench_saved_a2,   \* static bool bench_saved_a2
    bench_avx2,       \* static std::vector<float> bench_avx2: per index, the stores made
    bench_scalar,     \* static std::vector<float> bench_scalar: per index, the stores made
    cpu_has_avx2,     \* history: what __builtin_cpu_supports("avx2") returned at construction
    bench_log,        \* history: the renders of the current benchmark run, in order
    at_run,           \* history: thread_count and use_avx2 when Run was pressed last
    has_avx2,         \* the local has_avx2 of run_cli_benchmark
    cli_test          \* run_cli_benchmark: the number of tests[] entries done

poolVars == <<workers, tasks, pending, stopping, mtx, cv_task, cv_done, wpc, wtask>>
rendVars == <<use_avx2, avx2_active, TILE_W, TILE_H, mpc, vs, bufW, bufH, pixels, tx, ty>>
histVars == <<submitted, tiles, ran, wcount, waited, reused, spurious>>
kernVars == <<formula, julia_mode, julia_re, julia_im, re0, scale, im, max_iter,
              smooth, smooth4>>
lifeVars == <<thread_count, hw_concurrency, old_wpc, old_stopping, old_cv_task, inflight,
              stop_wpc, stop_queue, stc_arg, stc_n>>
dispVars == <<multibrot_exp, multibrot_exp_f, slow_int_n, scalar_call, vector_call,
              lyap_slow_int_n, lyap_call>>
obsVars == <<smooth_conj, lyap_out, lyap_out4, log_args, log_args4, orbit, lut_reads,
             kernel_run>>
guiVars == <<view, view_call, dirty, popup_open, bench_running, bench_done, bench_phase,
             bench_ti, bench_rep, bench_saved_tc, bench_saved_a2, bench_avx2, bench_scalar,
             cpu_has_avx2, bench_log, at_run, has_avx2, cli_test>>
extVars == <<lifeVars, dispVars, obsVars, guiVars>>
vars == <<poolVars, rendVars, histVars, kernVars, extVars>>

\* No kernel call is being followed.
KernelIdle ==
    /\ formula = "Standard"
    /\ julia_mode = FALSE
    /\ julia_re = 0
    /\ julia_im = 0
    /\ re0 = 0
    /\ scale = 0
    /\ im = 0
    /\ max_iter = <<>>
    /\ smooth = <<>>
    /\ smooth4 = <<>>

\* No pool is being replaced and no destructor has begun.
NoOldPool ==
    /\ old_wpc = <<>>
    /\ old_stopping = FALSE
    /\ old_cv_task = {}
    /\ inflight = {}
    /\ stop_wpc = <<>>
    /\ stop_queue = {}
    /\ stc_arg = 0
    /\ stc_n = 0

\* Nothing has been observed yet.
ObsIdle ==
    /\ smooth_conj = <<>>
    /\ lyap_out = <<>>
    /\ lyap_out4 = <<>>
    /\ log_args = <<>>
    /\ log_args4 = <<>>
    /\ orbit = <<>>
    /\ lut_reads = <<>>
    /\ kernel_run = <<>>

\* No dispatch is being followed; the exponents have their defaults
\* (multibrot_exp = 2, multibrot_exp_f = 3.0).
DispatchIdle ==
    /\ multibrot_exp = 2
    /\ multibrot_exp_f = [w |-> 3, h |-> 0, d |-> 0]
    /\ slow_int_n = <<>>
    /\ scalar_call = <<>>
    /\ vector_call = <<>>
    /\ lyap_slow_int_n = <<>>
    /\ lyap_call = <<>>

\* enum class FractalType
FractalTypes == {"Mandelbrot", "Julia", "BurningShip", "Mandelbar", "MultibroSlow",
                 "MultijuliaSlow"}

\* ViewState{}: the default member initialisers of struct ViewState.  A double
\* member holds the multiple of 10^-5 it equals (julia_im = 0.27015 is 27015);
\* multibrot_exp_f is the real exponent 3.0.
ViewStateDefault ==
    [center_x |-> 0, center_y |-> 0, view_width |-> 400000, max_iter |-> 256,
     fractal |-> "Mandelbrot", julia_re |-> -70000, julia_im |-> 27015,
     palette |-> 7, pal_offset |-> 0, multibrot_exp |-> 2,
     multibrot_exp_f |-> [w |-> 3, h |-> 0, d |-> 0]]

\* The statics of draw_benchmark_dialog as initialised, on a freshly built
\* application whose benchmark popup has not been opened.
GuiIdle ==
    /\ view = ViewStateDefault
    /\ view_call = <<>>
    /\ dirty = FALSE
    /\ popup_open = FALSE
    /\ bench_running = FALSE
    /\ bench_done = FALSE
    /\ bench_phase = 0
    /\ bench_ti = 0
    /\ bench_rep = 0
    /\ bench_saved_tc = 0
    /\ bench_saved_a2 = FALSE
    /\ bench_avx2 = <<>>
    /\ bench_scalar = <<>>
    /\ cpu_has_avx2 = use_avx2
    /\ bench_log = <<>>
    /\ at_run = <<>>
    /\ has_avx2 = FALSE
    /\ cli_test = 0

\* The constructor's bookkeeping for the pool it builds:
\* hw_concurrency = n; thread_count = n; pool = make_unique<ThreadPool>(n);
FirstPool ==
    /\ hw_concurrency = Cardinality(workers)
    /\ thread_count = Cardinality(workers)
    /\ NoOldPool

\* ------------------------------------------------------------------------
\* Pixel writes of one tile task (CpuRenderer::render_tile)
\* ------------------------------------------------------------------------
\* The fill colour of PixelBuffer::resize (0xFF000000u), which no render
\* of this model stores.
Stale == <<0, 0, 0, 0, 0>>

\* Colour stored by the vector path: palette_color of lane k of the kernel
\* call made for the group starting at px0 (re0 = x0 + px0*scale) in row py.
AvxColor(v, px0, k, py) == <<v, 1, px0, k, py>>

\* Colour stored by the scalar path: palette_color(kernel(x0 + px*scale, im)).
ScalarColor(v, px, py) == <<v, 0, px, 0, py>>

PixelWrite(px, py, c) == [px |-> px, py |-> py, val |-> c]

\* Variant: the scalar loop runs while px <= end and stores one pixel more.
RECURSIVE ScalarLoop_Inclusive(_, _, _, _)
ScalarLoop_Inclusive(v, px, end, py) ==
    IF px <= end
    THEN <<PixelWrite(px, py, ScalarColor(v, px, py))>>
         \o ScalarLoop_Inclusive(v, px + 1, end, py)
    ELSE <<>>

\* for (; px < end; ++px) row[px] = palette_color(smooth, ...)
RECURSIVE ScalarLoop(_, _, _, _)
ScalarLoop(v, px, end, py) ==
    IF px < end
    THEN <<PixelWrite(px, py, ScalarColor(v, px, py))>> \o ScalarLoop(v, px + 1, end, py)
    ELSE <<>>

\* Variant: the vector loop runs while px < end, so its last group of 4 may
\* pass the end of the tile row.
RECURSIVE VectorLoop_Overshoot(_, _, _, _)
VectorLoop_Overshoot(v, px, end, py) ==
    IF px < end
    THEN [k \in 1..LANES |-> PixelWrite(px + k - 1, py, AvxColor(v, px, k - 1, py))]
         \o VectorLoop_Overshoot(v, px + LANES, end, py)
    ELSE <<>>

\* Variant: the vector loop runs while px + 4 < end and leaves a last full
\* group of 4 to the scalar loop.
RECURSIVE VectorLoop_StopsEarly(_, _, _, _)
VectorLoop_StopsEarly(v, px, end, py) ==
    IF px + LANES < end
    THEN [k \in 1..LANES |-> PixelWrite(px + k - 1, py, AvxColor(v, px, k - 1, py))]
         \o VectorLoop_StopsEarly(v, px + LANES, end, py)
    ELSE ScalarLoop(v, px, end, py)

\* for (; px + 4 <= end; px += 4) { ...; for k in 0..3: row[px + k] = ... }
\* Returns the writes of the vector loop followed by those of the scalar loop
\* that continues from the px the vector loop stopped at.
RECURSIVE VectorLoop(_, _, _, _)
VectorLoop(v, px, end, py) ==
    IF px + LANES <= end
    THEN [k \in 1..LANES |-> PixelWrite(px + k - 1, py, AvxColor(v, px, k - 1, py))]
         \o VectorLoop(v, px + LANES, end, py)
    ELSE ScalarLoop(v, px, end, py)

\* const int end = std::min(tx + tw, W);
RowEnd(W, x, w) == Min(x + w, W)

\* Body of the py loop: one raster row of the tile.
RowWrites(v, avx, W, x, w, py) ==
    IF avx THEN VectorLoop(v, x, RowEnd(W, x, w), py)
           ELSE ScalarLoop(v, x, RowEnd(W, x, w), py)

\* for (int py = ty; py < ty + th && py < H; ++py)
RECURSIVE RowLoop(_, _, _, _, _, _, _, _, _)
RowLoop(v, avx, W, H, x, y, w, h, py) ==
    IF py < y + h /\ py < H
    THEN RowWrites(v, avx, W, x, w, py) \o RowLoop(v, avx, W, H, x, y, w, h, py + 1)
    ELSE <<>>

\* render_tile(vs, buf, tx, ty, tw, th): the sequence of stores it performs.
RenderTile(v, avx, W, H, x, y, w, h) == RowLoop(v, avx, W, H, x, y, w, h, y)

\* row = buf.pixels.data() + py * W;  row[px] = ...
PixelIndex(W, px, py) == py * W + px

\* The stores of ws that hit pixel index i, as positions in ws.
StoresAt(W, ws, i) == {j \in DOMAIN ws : PixelIndex(W, ws[j].px, ws[j].py) = i}

Max(S) == CHOOSE m \in S : \A n \in S : n <= m

\* The buffer after the stores ws, in order: each pixel keeps its last store.
\* A store whose index lies outside the buffer is dropped.
ApplyWrites(pix, W, ws) ==
    [i \in DOMAIN pix |->
        IF StoresAt(W, ws, i) = {} THEN pix[i] ELSE ws[Max(StoresAt(W, ws, i))].val]

\* Per pixel, the number of stores it has received.
CountWrites(cnt, W, ws) ==
    [i \in DOMAIN cnt |-> cnt[i] + Cardinality(StoresAt(W, ws, i))]

\* ------------------------------------------------------------------------
\* Tile geometry of CpuRenderer::render
\* ------------------------------------------------------------------------
\* Variant: the last tile of a row is not clipped to the raster.
TileWidth_Unclipped(TW, W, x) == TW

\* const int tw = std::min(TILE_W, W - tx);
TileWidth(TW, W, x) == Min(TW, W - x)

\* const int th = std::min(TILE_H, H - ty);
TileHeight(TH, H, y) == Min(TH, H - y)

\* The closure [this, vs, &buf, tx, ty, tw, th] handed to submit.
TileTask(id, v, x, y, w, h) == [id |-> id, vs |-> v, tx |-> x, ty |-> y, tw |-> w, th |-> h]

NoTask == TileTask(0, 0, 0, 0, 0, 0)

\* ------------------------------------------------------------------------
\* Condition variables
\* ------------------------------------------------------------------------
\* pc a thread resumes at after leaving a condition-variable wait: it must
\* re-acquire the mutex and re-evaluate the predicate.
Resume(t) == IF t = MainThread THEN "wait_lock" ELSE "lock"

\* cv_task.notify_one(): wakes one blocked worker, if any (chosen by the OS).
NotifyOneTask ==
    IF cv_task = {}
    THEN UNCHANGED <<cv_task, wpc>>
    ELSE \E t \in cv_task :
            /\ cv_task' = cv_task \ {t}
            /\ wpc' = [wpc EXCEPT ![t] = "lock"]

\* cv_task.notify_all()
NotifyAllTask ==
    /\ wpc' = [w \in workers |-> IF w \in cv_task THEN "lock" ELSE wpc[w]]
    /\ cv_task' = {}

\* cv_done.notify_all(): only the calling thread ever waits on cv_done.
NotifyAllDone ==
    /\ cv_done' = {}
    /\ mpc' = IF MainThread \in cv_done THEN Resume(MainThread) ELSE mpc

\* Variant: post-decrement, 'if (pending-- == 0)'.
PendingHitsZero_PostDecrement(p) == p = 0

\* The test of 'if (--pending == 0)', given pending before the statement.
PendingHitsZero(p) == p - 1 = 0

\* ------------------------------------------------------------------------
\* Initial state: CpuRenderer constructor and ThreadPool constructor
\* ------------------------------------------------------------------------
Init ==
    /\ workers \in {1..n : n \in 1..MaxWorkers}
    /\ tasks = <<>>
    /\ pending = 0
    /\ stopping = FALSE
    /\ mtx = NoOwner
    /\ cv_task = {}
    /\ cv_done = {}
    /\ wpc = [w \in workers |-> "lock"]
    /\ wtask = [w \in workers |-> NoTask]
    /\ use_avx2 \in BOOLEAN
    /\ avx2_active = use_avx2
    /\ \E ts \in TileSizes : TILE_W = ts[1] /\ TILE_H = ts[2]
    /\ mpc = "idle"
    /\ vs = 0
    /\ bufW = 0
    /\ bufH = 0
    /\ pixels = <<>>
    /\ tx = 0
    /\ ty = 0
    /\ submitted = 0
    /\ tiles = <<>>
    /\ ran = <<>>
    /\ wcount = <<>>
    /\ waited = FALSE
    /\ reused = FALSE
    /\ spurious = 0
    /\ KernelIdle
    /\ FirstPool
    /\ DispatchIdle
    /\ ObsIdle
    /\ GuiIdle

\* ------------------------------------------------------------------------
\* ThreadPool::worker_loop
\*
\* A critical section that a thread enters and leaves without blocking in
\* between is one step, taken when the mutex is free.  submit performs two
\* updates under the mutex; they are two steps with the mutex held between.
\* ------------------------------------------------------------------------
\* The predicate of cv_task.wait: [this] { return !tasks.empty() || stopping; }
TaskPredicate == tasks # <<>> \/ stopping

\* { unique_lock lock(mtx); cv_task.wait(lock, pred) with the predicate
\* false: the wait releases the mutex and blocks the worker.
WorkerSleep(w) ==
    /\ wpc[w] = "lock"
    /\ mtx = NoOwner
    /\ ~TaskPredicate
    /\ cv_task' = cv_task \cup {w}
    /\ wpc' = [wpc EXCEPT ![w] = "sleep"]
    /\ UNCHANGED <<workers, tasks, pending, stopping, mtx, cv_done, wtask>>
    /\ UNCHANGED <<rendVars, histVars>>
    /\ UNCHANGED kernVars
    /\ UNCHANGED extVars

\* Variant: 'if (stopping) return;', whatever the queue holds.
WorkerExit_OnStop(w) ==
    /\ wpc[w] = "lock"
    /\ mtx = NoOwner
    /\ TaskPredicate
    /\ stopping
    /\ wpc' = [wpc EXCEPT ![w] = "exited"]
    /\ UNCHANGED <<workers, tasks, pending, stopping, mtx, cv_task, cv_done, wtask>>
    /\ UNCHANGED <<rendVars, histVars>>
    /\ UNCHANGED kernVars
    /\ UNCHANGED extVars

\* { unique_lock lock(mtx); cv_task.wait(lock, pred);
\*   if (stopping && tasks.empty()) return;
WorkerExit(w) ==
    /\ wpc[w] = "lock"
    /\ mtx = NoOwner
    /\ TaskPredicate
    /\ stopping /\ tasks = <<>>
    /\ wpc' = [wpc EXCEPT ![w] = "exited"]
    /\ UNCHANGED <<workers, tasks, pending, stopping, mtx, cv_task, cv_done, wtask>>
    /\ UNCHANGED <<rendVars, histVars>>
    /\ UNCHANGED kernVars
    /\ UNCHANGED extVars

\* Variant: the worker copies the front task and leaves it in the queue.
WorkerDequeue_NoPop(w) ==
    /\ wpc[w] = "lock"
    /\ mtx = NoOwner
    /\ TaskPredicate
    /\ ~(stopping /\ tasks = <<>>)
    /\ wtask' = [wtask EXCEPT ![w] = Head(tasks)]
    /\ wpc' = [wpc EXCEPT ![w] = "run"]
    /\ UNCHANGED <<workers, tasks, pending, stopping, mtx, cv_task, cv_done>>
    /\ UNCHANGED <<rendVars, histVars>>
    /\ UNCHANGED kernVars
    /\ UNCHANGED extVars

\* { unique_lock lock(mtx); cv_task.wait(lock, pred); (no return)
\*   task = std::move(tasks.front()); tasks.pop_front(); }
WorkerDequeue(w) ==
    /\ wpc[w] = "lock"
    /\ mtx = NoOwner
    /\ TaskPredicate
    /\ ~(stopping /\ tasks = <<>>)
    /\ wtask' = [wtask EXCEPT ![w] = Head(tasks)]
    /\ tasks' = Tail(tasks)
    /\ wpc' = [wpc EXCEPT ![w] = "run"]
    /\ UNCHANGED <<workers, pending, stopping, mtx, cv_task, cv_done>>
    /\ UNCHANGED <<rendVars, histVars>>
    /\ UNCHANGED kernVars
    /\ UNCHANGED extVars

\* task();  i.e. render_tile(vs, buf, tx, ty, tw, th) of the captured tile
WorkerRun(w) ==
    /\ wpc[w] = "run"
    /\ LET t  == wtask[w]
           ws == RenderTile(t.vs, use_avx2, bufW, bufH, t.tx, t.ty, t.tw, t.th)
       IN  /\ pixels' = ApplyWrites(pixels, bufW, ws)
           /\ wcount' = CountWrites(wcount, bufW, ws)
           /\ ran' = [ran EXCEPT ![t.id] = @ + 1]
    /\ wpc' = [wpc EXCEPT ![w] = "ran"]
    /\ UNCHANGED <<workers, tasks, pending, stopping, mtx, cv_task, cv_done, wtask>>
    /\ UNCHANGED <<use_avx2, avx2_active, TILE_W, TILE_H, mpc, vs, bufW, bufH, tx, ty>>
    /\ UNCHANGED <<submitted, tiles, waited, reused, spurious>>
    /\ UNCHANGED kernVars
    /\ UNCHANGED extVars

\* { lock_guard lock(mtx); if (--pending == 0) cv_done.notify_all(); }
WorkerDone(w) ==
    /\ wpc[w] = "ran"
    /\ mtx = NoOwner
    /\ pending' = pending - 1
    /\ IF PendingHitsZero(pending)
       THEN NotifyAllDone
       ELSE UNCHANGED <<cv_done, mpc>>
    /\ wpc' = [wpc EXCEPT ![w] = "lock"]
    /\ wtask' = [wtask EXCEPT ![w] = NoTask]
    /\ UNCHANGED <<workers, tasks, stopping, mtx, cv_task>>
    /\ UNCHANGED <<use_avx2, avx2_active, TILE_W, TILE_H, vs, bufW, bufH, pixels, tx, ty>>
    /\ UNCHANGED histVars
    /\ UNCHANGED kernVars
    /\ UNCHANGED extVars

\* A condition-variable wait may return without a notification
\* (std::condition_variable permits spurious wake-ups); the model allows
\* MaxSpurious of them per render call.
SpuriousWake ==
    /\ spurious < MaxSpurious
    /\ spurious' = spurious + 1
    /\ UNCHANGED <<submitted, tiles, ran, wcount, waited, reused>>
    /\ UNCHANGED <<workers, tasks, pending, stopping, mtx, wtask>>
    /\ UNCHANGED <<use_avx2, avx2_active, TILE_W, TILE_H, vs, bufW, bufH, pixels, tx, ty>>
    /\ UNCHANGED kernVars
    /\ UNCHANGED extVars
    /\ \/ \E w \in cv_task :
             /\ cv_task' = cv_task \ {w}
             /\ wpc' = [wpc EXCEPT ![w] = Resume(w)]
             /\ UNCHANGED <<cv_done, mpc>>
       \/ /\ MainThread \in cv_done
          /\ cv_done' = cv_done \ {MainThread}
          /\ mpc' = Resume(MainThread)
          /\ UNCHANGED <<cv_task, wpc>>

\* ------------------------------------------------------------------------
\* ThreadPool::submit, as called by render for the tile at (tx, ty)
\* ------------------------------------------------------------------------
\* Variant: submit increments pending without holding the mutex and takes
\* the mutex for the push only.
SubmitInc_Unlocked ==
    /\ mpc = "submit"
    /\ pending' = pending + 1
    /\ mpc' = "submit_lock"
    /\ UNCHANGED <<workers, tasks, stopping, mtx, cv_task, cv_done, wpc, wtask>>
    /\ UNCHANGED <<use_avx2, avx2_active, TILE_W, TILE_H, vs, bufW, bufH, pixels, tx, ty>>
    /\ UNCHANGED histVars
    /\ UNCHANGED kernVars
    /\ UNCHANGED extVars

\* { lock_guard lock(mtx); ++pending;
SubmitInc ==
    /\ mpc = "submit"
    /\ mtx = NoOwner
    /\ mtx' = MainThread
    /\ pending' = pending + 1
    /\ mpc' = "submit_push"
    /\ UNCHANGED <<workers, tasks, stopping, cv_task, cv_done, wpc, wtask>>
    /\ UNCHANGED <<use_avx2, avx2_active, TILE_W, TILE_H, vs, bufW, bufH, pixels, tx, ty>>
    /\ UNCHANGED histVars
    /\ UNCHANGED kernVars
    /\ UNCHANGED extVars

\* tasks.push_back(std::move(f)); }
SubmitPush ==
    /\ mpc = "submit_push"
    /\ mtx = MainThread
    /\ LET f == TileTask(Len(tiles) + 1, vs, tx, ty,
                         TileWidth(TILE_W, bufW, tx), TileHeight(TILE_H, bufH, ty))
       IN  /\ tasks' = Append(tasks, f)
           /\ tiles' = Append(tiles, f)
    /\ ran' = Append(ran, 0)
    /\ mtx' = NoOwner
    /\ mpc' = "submit_notify"
    /\ UNCHANGED <<workers, pending, stopping, cv_task, cv_done, wpc, wtask>>
    /\ UNCHANGED <<use_avx2, avx2_active, TILE_W, TILE_H, vs, bufW, bufH, pixels, tx, ty>>
    /\ UNCHANGED <<submitted, wcount, waited, reused, spurious>>
    /\ UNCHANGED kernVars
    /\ UNCHANGED extVars

\* cv_task.notify_one();  submit returns and the inner loop does tx += TILE_W
SubmitNotify ==
    /\ mpc = "submit_notify"
    /\ NotifyOneTask
    /\ submitted' = submitted + 1
    /\ tx' = tx + TILE_W
    /\ mpc' = "tile_loop"
    /\ UNCHANGED <<workers, tasks, pending, stopping, mtx, cv_done, wtask>>
    /\ UNCHANGED <<use_avx2, avx2_active, TILE_W, TILE_H, vs, bufW, bufH, pixels, ty>>
    /\ UNCHANGED <<tiles, ran, wcount, waited, reused, spurious>>
    /\ UNCHANGED kernVars
    /\ UNCHANGED extVars

\* ------------------------------------------------------------------------
\* ThreadPool::wait
\* ------------------------------------------------------------------------
\* Variant: the barrier tests the queue instead of the pending counter.
WaitPredicate_QueueEmpty == tasks = <<>>

\* The predicate of cv_done.wait: [this] { return pending == 0; }
WaitPredicate == pending = 0

\* unique_lock lock(mtx); cv_done.wait(lock, pred) with the predicate false:
\* the wait releases the mutex and blocks the caller.
WaitSleep ==
    /\ mpc = "wait_lock"
    /\ mtx = NoOwner
    /\ ~WaitPredicate
    /\ cv_done' = cv_done \cup {MainThread}
    /\ mpc' = "wait_sleep"
    /\ waited' = TRUE
    /\ UNCHANGED <<workers, tasks, pending, stopping, mtx, cv_task, wpc, wtask>>
    /\ UNCHANGED <<use_avx2, avx2_active, TILE_W, TILE_H, vs, bufW, bufH, pixels, tx, ty>>
    /\ UNCHANGED <<submitted, tiles, ran, wcount, reused, spurious>>
    /\ UNCHANGED kernVars
    /\ UNCHANGED extVars

\* unique_lock lock(mtx); cv_done.wait(lock, pred) with the predicate true:
\* wait() returns.
WaitReturn ==
    /\ mpc = "wait_lock"
    /\ mtx = NoOwner
    /\ WaitPredicate
    /\ mpc' = "wait_ret"
    /\ waited' = TRUE
    /\ UNCHANGED <<workers, tasks, pending, stopping, mtx, cv_task, cv_done, wpc, wtask>>
    /\ UNCHANGED <<use_avx2, avx2_active, TILE_W, TILE_H, vs, bufW, bufH, pixels, tx, ty>>
    /\ UNCHANGED <<submitted, tiles, ran, wcount, reused, spurious>>
    /\ UNCHANGED kernVars
    /\ UNCHANGED extVars

\* ------------------------------------------------------------------------
\* CpuRenderer::render
\* ------------------------------------------------------------------------
\* PixelBuffer::resize(w, h): pixels.assign(w * h, 0xFF000000u).  A negative
\* product has no vector of that size; such a buffer carries no pixels here.
Resize(W, H) == IF W * H > 0 THEN [i \in 0..(W * H - 1) |-> Stale] ELSE <<>>

\* The caller sizes a buffer of its own and invokes render(vs, buf).
CallRender ==
    /\ mpc = "idle"
    /\ \E v \in Configs, W \in Widths, H \in Heights :
          /\ vs' = v
          /\ bufW' = W
          /\ bufH' = H
          /\ pixels' = Resize(W, H)
          /\ wcount' = [i \in DOMAIN Resize(W, H) |-> 0]
    /\ submitted' = 0
    /\ tiles' = <<>>
    /\ ran' = <<>>
    /\ waited' = FALSE
    /\ reused' = (submitted > 0 \/ reused)
    /\ spurious' = 0
    /\ mpc' = "render"
    /\ UNCHANGED poolVars
    /\ UNCHANGED <<use_avx2, avx2_active, TILE_W, TILE_H, tx, ty>>
    /\ UNCHANGED kernVars
    /\ UNCHANGED extVars

\* Variant: one-pixel-wide or one-pixel-high rasters are skipped as well.
Degenerate_OffByOne(W, H) == W <= 1 \/ H <= 1

\* Variant: only negative sizes are skipped.
Degenerate_NegativeOnly(W, H) == W < 0 \/ H < 0

\* if (W <= 0 || H <= 0) return;
Degenerate(W, H) == W <= 0 \/ H <= 0

\* avx2_active = use_avx2; ...; if (W <= 0 || H <= 0) return; ty = 0, tx = 0
RenderBegin ==
    /\ mpc = "render"
    /\ avx2_active' = use_avx2
    /\ IF Degenerate(bufW, bufH)
       THEN /\ mpc' = "render_ret"
            /\ UNCHANGED <<tx, ty>>
       ELSE /\ mpc' = "tile_loop"
            /\ tx' = 0
            /\ ty' = 0
    /\ UNCHANGED poolVars
    /\ UNCHANGED <<use_avx2, TILE_W, TILE_H, vs, bufW, bufH, pixels>>
    /\ UNCHANGED histVars
    /\ UNCHANGED kernVars
    /\ UNCHANGED extVars

\* Loop headers: for (ty = 0; ty < H; ty += TILE_H) for (tx = 0; tx < W; tx += TILE_W)
RenderLoop ==
    /\ mpc = "tile_loop"
    /\ IF ty < bufH
       THEN IF tx < bufW
            THEN /\ mpc' = "submit"
                 /\ UNCHANGED <<tx, ty>>
            ELSE /\ ty' = ty + TILE_H
                 /\ tx' = 0
                 /\ mpc' = "tile_loop"
       ELSE /\ mpc' = "wait_lock"
            /\ UNCHANGED <<tx, ty>>
    /\ UNCHANGED poolVars
    /\ UNCHANGED <<use_avx2, avx2_active, TILE_W, TILE_H, vs, bufW, bufH, pixels>>
    /\ UNCHANGED histVars
    /\ UNCHANGED kernVars
    /\ UNCHANGED extVars

\* pool->wait() has returned; last_render_ms = ...; render returns.
RenderEnd ==
    /\ mpc = "wait_ret"
    /\ mpc' = "render_ret"
    /\ UNCHANGED poolVars
    /\ UNCHANGED <<use_avx2, avx2_active, TILE_W, TILE_H, vs, bufW, bufH, pixels, tx, ty>>
    /\ UNCHANGED histVars
    /\ UNCHANGED kernVars
    /\ UNCHANGED extVars

\* Control is back in the caller.
RenderReturned ==
    /\ mpc = "render_ret"
    /\ mpc' = "idle"
    /\ UNCHANGED poolVars
    /\ UNCHANGED <<use_avx2, avx2_active, TILE_W, TILE_H, vs, bufW, bufH, pixels, tx, ty>>
    /\ UNCHANGED histVars
    /\ UNCHANGED kernVars
    /\ UNCHANGED extVars

\* ------------------------------------------------------------------------
\* ThreadPool::~ThreadPool (the renderer is destroyed at program exit)
\* ------------------------------------------------------------------------
\* { lock_guard lock(mtx); stopping = true; }
DtorStop ==
    /\ mpc = "idle"
    /\ mtx = NoOwner
    /\ stopping' = TRUE
    /\ mpc' = "dtor_notify"
    /\ inflight' = {wtask[w].id : w \in {u \in workers : wpc[u] \in {"run", "ran"}}}
    /\ stop_wpc' = wpc
    /\ stop_queue' = {tasks[j].id : j \in DOMAIN tasks}
    /\ UNCHANGED <<workers, tasks, pending, mtx, cv_task, cv_done, wpc, wtask>>
    /\ UNCHANGED <<use_avx2, avx2_active, TILE_W, TILE_H, vs, bufW, bufH, pixels, tx, ty>>
    /\ UNCHANGED histVars
    /\ UNCHANGED kernVars
    /\ UNCHANGED <<thread_count, hw_concurrency, old_wpc, old_stopping, old_cv_task,
                   stc_arg, stc_n>>
    /\ UNCHANGED dispVars
    /\ UNCHANGED <<obsVars, guiVars>>

\* Variant: the destructor wakes one worker only.
DtorNotify_One ==
    /\ mpc = "dtor_notify"
    /\ NotifyOneTask
    /\ mpc' = "dtor_join"
    /\ UNCHANGED <<workers, tasks, pending, stopping, mtx, cv_done, wtask>>
    /\ UNCHANGED <<use_avx2, avx2_active, TILE_W, TILE_H, vs, bufW, bufH, pixels, tx, ty>>
    /\ UNCHANGED histVars
    /\ UNCHANGED kernVars
    /\ UNCHANGED extVars

\* cv_task.notify_all();
DtorNotify ==
    /\ mpc = "dtor_notify"
    /\ NotifyAllTask
    /\ mpc' = "dtor_join"
    /\ UNCHANGED <<workers, tasks, pending, stopping, mtx, cv_done, wtask>>
    /\ UNCHANGED <<use_avx2, avx2_active, TILE_W, TILE_H, vs, bufW, bufH, pixels, tx, ty>>
    /\ UNCHANGED histVars
    /\ UNCHANGED kernVars
    /\ UNCHANGED extVars

\* Variant: the destructor returns without joining the worker threads.
DtorJoin_Detach ==
    /\ mpc = "dtor_join"
    /\ mpc' = "destroyed"
    /\ UNCHANGED poolVars
    /\ UNCHANGED <<use_avx2, avx2_active, TILE_W, TILE_H, vs, bufW, bufH, pixels, tx, ty>>
    /\ UNCHANGED histVars
    /\ UNCHANGED kernVars
    /\ UNCHANGED extVars

\* for (auto& t : workers) t.join();
DtorJoin ==
    /\ mpc = "dtor_join"
    /\ \A w \in workers : wpc[w] = "exited"
    /\ mpc' = "destroyed"
    /\ UNCHANGED poolVars
    /\ UNCHANGED <<use_avx2, avx2_active, TILE_W, TILE_H, vs, bufW, bufH, pixels, tx, ty>>
    /\ UNCHANGED histVars
    /\ UNCHANGED kernVars
    /\ UNCHANGED extVars

\* ------------------------------------------------------------------------
\* Specification of the pool and the renderer
\* ------------------------------------------------------------------------
Worker(w) ==
    \/ WorkerSleep(w)
    \/ WorkerExit(w)
    \/ WorkerDequeue(w)
    \/ WorkerRun(w)
    \/ WorkerDone(w)

Caller ==
    \/ CallRender
    \/ RenderBegin
    \/ RenderLoop
    \/ SubmitInc
    \/ SubmitPush
    \/ SubmitNotify
    \/ WaitSleep
    \/ WaitReturn
    \/ RenderEnd
    \/ RenderReturned
    \/ DtorStop
    \/ DtorNotify
    \/ DtorJoin

Next ==
    \/ \E w \in workers : Worker(w)
    \/ Caller
    \/ SpuriousWake

Spec == Init /\ [][Next]_vars

\* The steps of worker_loop other than the task body.
WorkerStep(w) ==
    \/ WorkerSleep(w)
    \/ WorkerExit(w)
    \/ WorkerDequeue(w)
    \/ WorkerDone(w)

\* The steps of the calling thread inside render, submit, wait and the
\* destructor once it has begun.
CallerStep ==
    \/ RenderBegin
    \/ RenderLoop
    \/ SubmitInc
    \/ SubmitPush
    \/ SubmitNotify
    \/ WaitSleep
    \/ WaitReturn
    \/ RenderEnd
    \/ RenderReturned
    \/ DtorNotify
    \/ DtorJoin

\* Scheduling assumption for progress claims: while some thread can take a
\* step of the program outside a task body the system does not stop, and
\* every task terminates (no worker stays inside task() forever).  Spurious
\* wake-ups and the caller's decisions to call render or to destroy the
\* renderer are not forced.
TasksTerminate == \A w \in 1..MaxWorkers : []<>(w \in workers => wpc[w] # "run")

Fairness ==
    /\ WF_vars(CallerStep \/ \E w \in workers : WorkerStep(w))
    /\ TasksTerminate

FairSpec == Init /\ [][Next]_vars /\ Fairness

TypeOK ==
    /\ pending \in Int
    /\ mtx \in {NoOwner, MainThread} \cup workers

\* ------------------------------------------------------------------------
\* Properties of the pool and the renderer
\* ------------------------------------------------------------------------
InsideTask(w) == wpc[w] = "run"

\* C1: when ThreadPool::wait() returns, every task pushed by a submit() that
\* completed before wait() was called has been executed, the queue is empty
\* and no worker is inside a task; on every submit.../wait() cycle of the pool.
C1_WaitBarrier ==
    mpc = "wait_ret" =>
        /\ tasks = <<>>
        /\ \A w \in workers : ~InsideTask(w)
        /\ \A id \in 1..submitted : ran[id] >= 1

\* A later cycle on the same pool ends with several tasks done by several workers.
C1_Witness ==
    /\ mpc = "wait_ret"
    /\ reused
    /\ submitted >= 2
    /\ Cardinality(workers) >= 2

\* C2: render on a raster with W > 0 and H > 0 returns only after every tile
\* task it submitted has finished, and then each of the W*H pixels has been
\* written during this call.
C2_RenderFillsRaster ==
    (mpc = "render_ret" /\ bufW > 0 /\ bufH > 0) =>
        /\ \A id \in 1..Len(tiles) : ran[id] >= 1
        /\ \A w \in workers : ~InsideTask(w)
        /\ DOMAIN pixels = 0..(bufW * bufH - 1)
        /\ \A i \in DOMAIN pixels : wcount[i] >= 1 /\ pixels[i] # Stale

C2_Witness ==
    /\ mpc = "render_ret"
    /\ bufW = MaxW
    /\ bufH = MaxH
    /\ Len(tiles) >= 2

\* What the tile tasks of one render leave in the raster when they run one
\* after the other in submission order, as a pool of one worker runs them.
RECURSIVE OneWorkerRaster(_, _, _, _, _, _, _, _, _)
OneWorkerRaster(pix, v, avx, W, H, TW, TH, x, y) ==
    IF y >= H THEN pix
    ELSE IF x >= W THEN OneWorkerRaster(pix, v, avx, W, H, TW, TH, 0, y + TH)
    ELSE OneWorkerRaster(
            ApplyWrites(pix, W, RenderTile(v, avx, W, H, x, y,
                                           TileWidth(TW, W, x), TileHeight(TH, H, y))),
            v, avx, W, H, TW, TH, x + TW, y)

\* C3: with at least one worker and terminating tasks, every call of
\* ThreadPool::wait() eventually returns; the last worker's decrement and
\* notification is never lost between the waiter's predicate test and sleep.
C3_WaitReturns == (mpc = "wait_lock") ~> (mpc = "wait_ret")

\* The waiter slept on cv_done and was then released by a worker's notify.
C3_Witness ==
    /\ mpc = "wait_ret"
    /\ waited
    /\ submitted >= 2
    /\ \E w \in workers : wpc[w] = "lock" /\ w \notin cv_task

\* C6: for any number of workers and any interleaving of the tile tasks, the
\* raster a render leaves is the one a single worker leaves for the same
\* configuration and raster size.
C6_ThreadCountDeterminism ==
    (mpc = "render_ret" /\ bufW > 0 /\ bufH > 0) =>
        pixels = OneWorkerRaster(Resize(bufW, bufH), vs, use_avx2, bufW, bufH,
                                 TILE_W, TILE_H, 0, 0)

\* A render of at least four tiles on a pool of two workers, with pixels
\* stored by the vector path.
C6_Witness ==
    /\ mpc = "render_ret"
    /\ Cardinality(workers) >= 2
    /\ Len(tiles) >= 4
    /\ use_avx2
    /\ \E i \in DOMAIN pixels : pixels[i][2] = 1

\* C10: render on a raster whose width or height is zero or negative submits
\* no task, writes no pixel and never enters ThreadPool::wait; it returns.
C10_DegenerateNoOp ==
    (mpc = "render_ret" /\ (bufW <= 0 \/ bufH <= 0)) =>
        /\ submitted = 0
        /\ tiles = <<>>
        /\ tasks = <<>>
        /\ pending = 0
        /\ ~waited
        /\ \A i \in DOMAIN pixels : pixels[i] = Stale /\ wcount[i] = 0

\* The call returned for width = height = -1, whose buffer holds one pixel.
C10_Witness ==
    /\ mpc = "render_ret"
    /\ bufW < 0
    /\ bufH < 0
    /\ pixels # <<>>
    /\ reused

\* ------------------------------------------------------------------------
\* Specification of one render call over a wide range of raster and tile
\* sizes, on a pool of one worker
\* ------------------------------------------------------------------------
\* Raster sizes and tile sizes of this specification.
RasterWidths == 1..MaxRasterW
RasterHeights == 1..MaxRasterH
TileWidths == (1..MaxTileW) \cup {64}
TileHeights == (1..MaxTileH) \cup {64}

\* render(vs, buf) has just been called on a freshly built renderer.
InitTiles ==
    /\ workers = {1}
    /\ tasks = <<>>
    /\ pending = 0
    /\ stopping = FALSE
    /\ mtx = NoOwner
    /\ cv_task = {}
    /\ cv_done = {}
    /\ wpc = [w \in workers |-> "lock"]
    /\ wtask = [w \in workers |-> NoTask]
    /\ use_avx2 \in BOOLEAN
    /\ avx2_active = use_avx2
    /\ TILE_W \in TileWidths
    /\ TILE_H \in TileHeights
    /\ mpc = "render"
    /\ vs \in Configs
    /\ bufW \in RasterWidths
    /\ bufH \in RasterHeights
    /\ pixels = Resize(bufW, bufH)
    /\ tx = 0
    /\ ty = 0
    /\ submitted = 0
    /\ tiles = <<>>
    /\ ran = <<>>
    /\ wcount = [i \in DOMAIN Resize(bufW, bufH) |-> 0]
    /\ waited = FALSE
    /\ reused = FALSE
    /\ spurious = 0
    /\ KernelIdle
    /\ FirstPool
    /\ DispatchIdle
    /\ ObsIdle
    /\ GuiIdle

NextTiles ==
    \/ RenderBegin
    \/ RenderLoop
    \/ SubmitInc
    \/ SubmitPush
    \/ SubmitNotify
    \/ WaitSleep
    \/ WaitReturn
    \/ RenderEnd
    \/ \E w \in workers : WorkerSleep(w)
    \/ \E w \in workers : WorkerDequeue(w)
    \/ \E w \in workers : WorkerRun(w)
    \/ \E w \in workers : WorkerDone(w)

SpecTiles == InitTiles /\ [][NextTiles]_vars

\* ------------------------------------------------------------------------
\* Properties of the tiling
\* ------------------------------------------------------------------------
\* Pixel (x, y) lies in the rectangle of tile task t.
InRect(t, x, y) == t.tx <= x /\ x < t.tx + t.tw /\ t.ty <= y /\ y < t.ty + t.th

\* The tile tasks submitted so far whose rectangle holds pixel (x, y).
TilesAt(x, y) == {id \in 1..Len(tiles) : InRect(tiles[id], x, y)}

\* The two tile loops of render have run to their end.
LoopsDone == mpc \in {"wait_lock", "wait_sleep", "wait_ret", "render_ret"}

\* C4: for W >= 1, H >= 1 and any positive tile size, every tile rectangle
\* generated by render lies inside the raster with tw >= 1 and th >= 1, no
\* pixel belongs to two generated tiles, and once the loops are done every
\* pixel of the raster belongs to exactly one tile.
C4_TilePartition ==
    /\ \A id \in 1..Len(tiles) :
          /\ tiles[id].tw >= 1
          /\ tiles[id].th >= 1
          /\ tiles[id].tx >= 0
          /\ tiles[id].ty >= 0
          /\ tiles[id].tx + tiles[id].tw <= bufW
          /\ tiles[id].ty + tiles[id].th <= bufH
    /\ \A x \in 0..(bufW - 1), y \in 0..(bufH - 1) :
          /\ Cardinality(TilesAt(x, y)) <= 1
          /\ LoopsDone => Cardinality(TilesAt(x, y)) = 1

\* The loops ended on a raster cut into several columns and rows of tiles,
\* the last column and the last row clipped.
C4_Witness ==
    /\ LoopsDone
    /\ Len(tiles) >= 4
    /\ \E id \in 1..Len(tiles) : tiles[id].tw < TILE_W /\ tiles[id].tx > 0
    /\ \E id \in 1..Len(tiles) : tiles[id].th < TILE_H /\ tiles[id].ty > 0

\* The number of times the tile tasks that have run so far should have stored
\* pixel (x, y): once per run of a task whose rectangle holds it.
RunsAt(x, y) == Cardinality({id \in TilesAt(x, y) : ran[id] >= 1})

\* C5: each tile task stores every pixel of its own rectangle exactly once
\* and no pixel outside it, on the scalar path and on the vector path with
\* its groups of 4; no pixel is stored by two tasks of the same render.
C5_TileWritesOwnRectangle ==
    /\ \A id \in 1..Len(tiles) : ran[id] <= 1
    /\ \A x \in 0..(bufW - 1), y \in 0..(bufH - 1) :
          /\ wcount[PixelIndex(bufW, x, y)] = RunsAt(x, y)
          /\ wcount[PixelIndex(bufW, x, y)] <= 1

\* All tasks of a render have run; one row holds pixels stored by a group of
\* 4 and a pixel stored by the scalar remainder loop, in several tiles.
C5_Witness ==
    /\ mpc = "wait_ret"
    /\ use_avx2
    /\ Len(tiles) >= 2
    /\ \E i, j \in DOMAIN pixels :
          /\ pixels[i][2] = 1
          /\ pixels[j][2] = 0
          /\ pixels[j] # Stale
          /\ pixels[i][5] = pixels[j][5]

\* Pixel (x, y) has been stored by the scalar loop of render_tile, whose only
\* colouring call is palette_color (it has no branch on vs.color_mode).
StoredByScalarLoop(x, y) ==
    /\ pixels[PixelIndex(bufW, x, y)] # Stale
    /\ pixels[PixelIndex(bufW, x, y)][2] = 0

\* Pixel (x, y) has been stored from a lane of a group of 4.
StoredByVectorLoop(x, y) ==
    /\ pixels[PixelIndex(bufW, x, y)] # Stale
    /\ pixels[PixelIndex(bufW, x, y)][2] = 1

\* C21: with the vector path enabled and a tile width that is a multiple of
\* 4 (the program's 64, and 4 for rasters of several tile columns), the
\* pixels of a raster row stored by the scalar remainder loop are exactly the
\* rightmost W mod 4 pixels of the row; all others are stored from groups
\* of 4.  Holds for every width W and during the whole render.
C21_ScalarRemainder ==
    (use_avx2 /\ TILE_W % LANES = 0) =>
        \A x \in 0..(bufW - 1), y \in 0..(bufH - 1) :
            /\ StoredByScalarLoop(x, y) => x >= bufW - (bufW % LANES)
            /\ StoredByVectorLoop(x, y) => x < bufW - (bufW % LANES)
            /\ mpc = "render_ret" =>
                   (StoredByScalarLoop(x, y) \/ StoredByVectorLoop(x, y))

\* A render on the vector path has returned on a raster of two tile columns
\* whose width leaves a remainder of 2: both remainder pixels of a row were
\* stored by the scalar loop of the clipped tile, the others by groups of 4.
C21_Witness ==
    /\ mpc = "render_ret"
    /\ use_avx2
    /\ TILE_W = LANES
    /\ bufW = TILE_W + 2
    /\ Len(tiles) >= 2
    /\ StoredByScalarLoop(bufW - 1, 0)
    /\ StoredByScalarLoop(bufW - 2, 0)
    /\ StoredByVectorLoop(bufW - 3, 0)

\* ------------------------------------------------------------------------
\* Floating-point arithmetic of the kernels
\* ------------------------------------------------------------------------
\* A double is modelled by a binary floating-point number with Precision
\* significant bits and least spacing 2^-FracBits; the integer n stands for
\* the value n * 2^-FracBits.  Every operation rounds its exact result to
\* nearest, ties to even, as IEEE-754 arithmetic does.  The inputs and caps
\* of KernelInputs keep all values far below the overflow range.
Pow2(k) == 2 ^ k

\* The double 1.0, 2.0 and 4.0.
One == Pow2(FracBits)
Two == 2 * One
Four == 4 * One

Larger(a, b) == IF a > b THEN a ELSE b

\* std::abs / clearing the sign bit (andnot with -0.0)
FAbs(a) == IF a < 0 THEN -a ELSE a

\* Number of binary digits of n >= 0.
RECURSIVE BitLen(_)
BitLen(n) == IF n = 0 THEN 0 ELSE 1 + BitLen(n \div 2)

\* Variant: ties are rounded up, towards plus infinity.
RoundQ_TiesUp(m, q) ==
    LET lo == (m \div q) * q
    IN IF 2 * (m - lo) < q THEN lo ELSE lo + q

\* m rounded to the nearest multiple of q, ties to the even multiple.
RoundQ(m, q) ==
    LET lo == (m \div q) * q
        r == m - lo
    IN IF 2 * r < q THEN lo
       ELSE IF 2 * r > q THEN lo + q
       ELSE IF (lo \div q) % 2 = 0 THEN lo ELSE lo + q

\* The double nearest to the exact value m * 2^-(FracBits + shift).
RoundFloat(m, shift) ==
    RoundQ(m, Pow2(Larger(shift, BitLen(FAbs(m)) - Precision))) \div Pow2(shift)

\* a + b, a - b, a * b on doubles (mul and add are separate roundings: no FMA).
FAdd(a, b) == RoundFloat(a + b, 0)
FSub(a, b) == RoundFloat(a - b, 0)
FMul(a, b) == RoundFloat(a * b, FracBits)

\* static_cast<double>(n), _mm256_set1_pd(static_cast<double>(n))
FromInt(n) == RoundFloat(n * One, 0)

\* ------------------------------------------------------------------------
\* Results of a kernel
\* ------------------------------------------------------------------------
\* Template arguments the named wrappers pass for each formula.
Formulas == {"Standard", "BurningShip", "Mandelbar", "Celtic", "Buffalo"}
IsBurningShip(f) == f = "BurningShip"
IsMandelbar(f) == f = "Mandelbar"
AbsRe(f) == f \in {"Celtic", "Buffalo"}
AbsIm(f) == f = "Buffalo"

\* max(0.0, iters + 1.0 - nu) with nu = log(log(r2) * 0.5 / log2) / log2: the
\* smooth value of an escaped point, kept as the two inputs it is computed from.
Smooth(iters, r2) == <<"smooth", iters, r2>>

\* static_cast<double>(max_iter): the value returned for an interior point.
Cap(K) == <<"max_iter", FromInt(K)>>

\* ------------------------------------------------------------------------
\* scalar_kernel<IsJulia, IsBurningShip, IsMandelbar, AbsRe, AbsIm>
\* ------------------------------------------------------------------------
scalar_new_zr(f, zr2, zi2, c_re) ==
    IF IsBurningShip(f) THEN FAdd(FSub(zr2, zi2), c_re)
    ELSE IF AbsRe(f) \/ AbsIm(f)
    THEN FAdd(IF AbsRe(f) THEN FAbs(FSub(zr2, zi2)) ELSE FSub(zr2, zi2), c_re)
    ELSE FAdd(FSub(zr2, zi2), c_re)

scalar_new_zi(f, zr, zi, c_im) ==
    IF IsBurningShip(f) THEN FAdd(FAbs(FMul(FMul(Two, zr), zi)), c_im)
    ELSE IF AbsRe(f) \/ AbsIm(f)
    THEN FAdd(IF AbsIm(f) THEN FAbs(FMul(FMul(Two, zr), zi))
                          ELSE FMul(FMul(Two, zr), zi), c_im)
    ELSE FAdd(IF IsMandelbar(f) THEN FMul(FMul(-Two, zr), zi)
                                ELSE FMul(FMul(Two, zr), zi), c_im)

\* Variant: the loop runs while i <= max_iter.
ScalarLoopCond_Inclusive(i, K) == i <= K

\* while (i < max_iter)
ScalarLoopCond(i, K) == i < K

\* The while loop from iteration i on, with z = (zr, zi).
RECURSIVE scalar_loop(_, _, _, _, _, _, _)
scalar_loop(f, zr, zi, c_re, c_im, i, K) ==
    IF ScalarLoopCond(i, K)
    THEN LET zr2 == FMul(zr, zr)
             zi2 == FMul(zi, zi)
         IN IF FAdd(zr2, zi2) > Four
            THEN Smooth(FromInt(i), FAdd(zr2, zi2))
            ELSE scalar_loop(f, scalar_new_zr(f, zr2, zi2, c_re),
                             scalar_new_zi(f, zr, zi, c_im), c_re, c_im, i + 1, K)
    ELSE Cap(K)

scalar_kernel(f, IsJulia, re, imv, cr, ci, K) ==
    scalar_loop(f, IF IsJulia THEN re ELSE 0, IF IsJulia THEN imv ELSE 0,
                IF IsJulia THEN cr ELSE re, IF IsJulia THEN ci ELSE imv, 0, K)

\* mandelbrot_iter, julia_iter, burning_ship_iter, ...: the named wrappers,
\* which pass 0, 0 for the constant outside Julia mode.
scalar_iter(f, IsJulia, re, imv, jre, jim, K) ==
    IF IsJulia THEN scalar_kernel(f, TRUE, re, imv, jre, jim, K)
               ELSE scalar_kernel(f, FALSE, re, imv, 0, 0, K)

\* ------------------------------------------------------------------------
\* avx_kernel<IsJulia, IsBurningShip, IsMandelbar, AbsRe, AbsIm>
\* ------------------------------------------------------------------------
Lanes == 0..(LANES - 1)

\* A 256-bit register of 4 lanes, lane k held at position k + 1.
Vec(F(_)) == <<F(0), F(1), F(2), F(3)>>
Lane(v, k) == v[k + 1]
Set1(x) == <<x, x, x, x>>

\* re4 = _mm256_set_pd(re0 + 3.0*scale, re0 + 2.0*scale, re0 + scale, re0)
re4(r0, sc) ==
    <<r0, FAdd(r0, sc), FAdd(r0, FMul(FromInt(2), sc)), FAdd(r0, FMul(FromInt(3), sc))>>

\* One lane of the z update.
avx_new_zr(f, zr, zi, zr2, zi2, cr) ==
    IF IsBurningShip(f) THEN FAdd(FMul(zr, zr), FSub(cr, FMul(zi, zi)))
    ELSE IF AbsRe(f) \/ AbsIm(f)
    THEN FAdd(IF AbsRe(f) THEN FAbs(FSub(zr2, zi2)) ELSE FSub(zr2, zi2), cr)
    ELSE FAdd(FMul(zr, zr), FSub(cr, FMul(zi, zi)))

avx_new_zi(f, zr, zi, ci) ==
    IF IsBurningShip(f) THEN FAdd(FMul(FAdd(FAbs(zr), FAbs(zr)), FAbs(zi)), ci)
    ELSE IF AbsRe(f) \/ AbsIm(f)
    THEN FAdd(IF AbsIm(f) THEN FAbs(FMul(FAdd(zr, zr), zi))
                          ELSE FMul(FAdd(zr, zr), zi), ci)
    ELSE IF IsMandelbar(f) THEN FSub(ci, FMul(FAdd(zr, zr), zi))
    ELSE FAdd(FMul(FAdd(zr, zr), zi), ci)

\* Variant: the counter is incremented for every lane, escaped or not.
CounterStep_Unmasked(act) == One

\* _mm256_and_pd(active, one): 1.0 for an active lane, 0.0 for an escaped one.
CounterStep(act) == IF act THEN One ELSE 0

\* Registers at the loop's entry.
avx_seed(IsJulia, r0, sc, imv, c_re, c_im) ==
    [cr       |-> IF IsJulia THEN Set1(c_re) ELSE re4(r0, sc),
     ci       |-> IF IsJulia THEN Set1(c_im) ELSE Set1(imv),
     zr       |-> IF IsJulia THEN re4(r0, sc) ELSE Set1(0),
     zi       |-> IF IsJulia THEN Set1(imv) ELSE Set1(0),
     active   |-> Set1(TRUE),
     iters_d  |-> Set1(0),
     final_r2 |-> Set1(Four)]

\* One pass through the loop body up to the break: mag2, just_esc, final_r2, active.
avx_escape_test(s) ==
    LET mag2 == Vec(LAMBDA k : FAdd(FMul(Lane(s.zr, k), Lane(s.zr, k)),
                                    FMul(Lane(s.zi, k), Lane(s.zi, k))))
        just_esc == Vec(LAMBDA k : Lane(mag2, k) > Four /\ Lane(s.active, k))
    IN [s EXCEPT !.final_r2 = Vec(LAMBDA k : IF Lane(just_esc, k) THEN Lane(mag2, k)
                                                                  ELSE Lane(s.final_r2, k)),
                 !.active = Vec(LAMBDA k : Lane(s.active, k) /\ ~Lane(just_esc, k))]

\* The rest of the loop body: z update, freeze of escaped lanes, counter.
\* s carries the active mask the escape test has just computed.
avx_update(f, s) ==
    [s EXCEPT
        !.zr = Vec(LAMBDA k :
                     IF Lane(s.active, k)
                     THEN avx_new_zr(f, Lane(s.zr, k), Lane(s.zi, k),
                                     FMul(Lane(s.zr, k), Lane(s.zr, k)),
                                     FMul(Lane(s.zi, k), Lane(s.zi, k)), Lane(s.cr, k))
                     ELSE Lane(s.zr, k)),
        !.zi = Vec(LAMBDA k :
                     IF Lane(s.active, k)
                     THEN avx_new_zi(f, Lane(s.zr, k), Lane(s.zi, k), Lane(s.ci, k))
                     ELSE Lane(s.zi, k)),
        !.iters_d = Vec(LAMBDA k : FAdd(Lane(s.iters_d, k), CounterStep(Lane(s.active, k))))]

\* if (_mm256_movemask_pd(active) == 0) break;
NoneActive(s) == \A k \in Lanes : ~Lane(s.active, k)

\* for (int i = 0; i < max_iter; ++i) { ... }: the registers after the loop.
RECURSIVE avx_loop(_, _, _, _)
avx_loop(f, s, i, K) ==
    IF i < K
    THEN LET t == avx_escape_test(s)
         IN IF NoneActive(t) THEN t ELSE avx_loop(f, avx_update(f, t), i + 1, K)
    ELSE s

\* result = blendv(smooth, max_d_v, active); storeu(out4, result)
avx_result(s, K) ==
    Vec(LAMBDA k : IF Lane(s.active, k) THEN Cap(K)
                   ELSE Smooth(Lane(s.iters_d, k), Lane(s.final_r2, k)))

avx_kernel(f, IsJulia, r0, sc, imv, K, c_re, c_im) ==
    avx_result(avx_loop(f, avx_seed(IsJulia, r0, sc, imv, c_re, c_im), 0, K), K)

\* avx_mandelbrot_4, avx_julia_4, ...: the public entry points, which pass
\* 0.0, 0.0 for the constant outside Julia mode.
avx_4(f, IsJulia, r0, sc, imv, K, jre, jim) ==
    IF IsJulia THEN avx_kernel(f, TRUE, r0, sc, imv, K, jre, jim)
               ELSE avx_kernel(f, FALSE, r0, sc, imv, K, 0, 0)

\* ------------------------------------------------------------------------
\* Specification of the kernels: a group of 4 pixels is computed by the
\* vector kernel and, pixel by pixel, by the scalar kernel, in two passes
\* with the iteration caps max_iter[1] <= max_iter[2] = MaxIter
\* ------------------------------------------------------------------------
Re0s == {k * (One \div 2) : k \in -4..2}
Scales == {One \div 4, One \div 2}
Ims == -MaxCoord..1
JuliaConstants == {<<-One, 0>>, <<One \div 4, One \div 2>>}
Caps == 0..MaxIter

InitKernel ==
    /\ workers = {1}
    /\ tasks = <<>>
    /\ pending = 0
    /\ stopping = FALSE
    /\ mtx = NoOwner
    /\ cv_task = {}
    /\ cv_done = {}
    /\ wpc = [w \in workers |-> "lock"]
    /\ wtask = [w \in workers |-> NoTask]
    /\ use_avx2 = TRUE
    /\ avx2_active = use_avx2
    /\ TILE_W = 64
    /\ TILE_H = 64
    /\ mpc = "idle"
    /\ vs = 0
    /\ bufW = 0
    /\ bufH = 0
    /\ pixels = <<>>
    /\ tx = 0
    /\ ty = 0
    /\ submitted = 0
    /\ tiles = <<>>
    /\ ran = <<>>
    /\ wcount = <<>>
    /\ waited = FALSE
    /\ reused = FALSE
    /\ spurious = 0
    /\ formula \in Formulas
    /\ julia_mode \in BOOLEAN
    /\ \E c \in IF julia_mode THEN JuliaConstants ELSE {<<0, 0>>} :
          /\ julia_re = c[1]
          /\ julia_im = c[2]
    /\ re0 \in Re0s
    /\ scale \in Scales
    /\ im \in Ims
    /\ \E K \in Caps : max_iter = <<K, MaxIter>>
    /\ smooth = <<>>
    /\ smooth4 = <<>>
    /\ FirstPool
    /\ DispatchIdle
    /\ ObsIdle
    /\ GuiIdle

\* The vector path of render_tile calls the entry point for the group.
CallVector ==
    /\ Len(smooth4) = Len(smooth)
    /\ Len(smooth4) < Len(max_iter)
    /\ smooth4' = Append(smooth4,
                         avx_4(formula, julia_mode, re0, scale, im,
                               max_iter[Len(smooth4) + 1], julia_re, julia_im))
    /\ UNCHANGED <<formula, julia_mode, julia_re, julia_im, re0, scale, im, max_iter, smooth>>
    /\ UNCHANGED <<poolVars, rendVars, histVars>>
    /\ UNCHANGED extVars

\* The scalar kernel is called for the point of each of the 4 lanes.
CallScalar ==
    /\ Len(smooth) < Len(smooth4)
    /\ smooth' = Append(smooth,
                        Vec(LAMBDA k :
                            scalar_iter(formula, julia_mode, Lane(re4(re0, scale), k), im,
                                        julia_re, julia_im, max_iter[Len(smooth) + 1])))
    /\ UNCHANGED <<formula, julia_mode, julia_re, julia_im, re0, scale, im, max_iter, smooth4>>
    /\ UNCHANGED <<poolVars, rendVars, histVars>>
    /\ UNCHANGED extVars

NextKernel ==
    \/ CallVector
    \/ CallScalar

SpecKernel == InitKernel /\ [][NextKernel]_vars

\* ------------------------------------------------------------------------
\* Properties of the kernels
\* ------------------------------------------------------------------------
\* The passes for which both kernels have returned.
Passes == 1..Len(smooth)

Escaped(out) == out[1] = "smooth"

\* C7: for every formula, seeding mode and cap, each lane of a vector-kernel
\* call is classified interior or escaped as the scalar kernel classifies the
\* same point, and for an escaped lane the lane counter and the recorded
\* |z|^2 equal the scalar kernel's index i and its |z|^2 at escape.
C7_LaneMatchesScalar ==
    \A p \in Passes : \A k \in Lanes :
        /\ Escaped(Lane(smooth4[p], k)) <=> Escaped(Lane(smooth[p], k))
        /\ Escaped(Lane(smooth[p], k)) => Lane(smooth4[p], k) = Lane(smooth[p], k)

\* The iterates z_j ... z_(K-1) of the scalar kernel's recurrence all have
\* |z|^2 <= 4, where (zr, zi) is z_j.
RECURSIVE ScalarOrbitBounded(_, _, _, _, _, _, _)
ScalarOrbitBounded(f, zr, zi, c_re, c_im, j, K) ==
    \/ j >= K
    \/ /\ FAdd(FMul(zr, zr), FMul(zi, zi)) <= Four
       /\ ScalarOrbitBounded(f, scalar_new_zr(f, FMul(zr, zr), FMul(zi, zi), c_re),
                             scalar_new_zi(f, zr, zi, c_im), c_re, c_im, j + 1, K)

\* The same for one lane of the vector kernel's recurrence.
RECURSIVE LaneOrbitBounded(_, _, _, _, _, _, _)
LaneOrbitBounded(f, zr, zi, cr, ci, j, K) ==
    \/ j >= K
    \/ /\ FAdd(FMul(zr, zr), FMul(zi, zi)) <= Four
       /\ LaneOrbitBounded(f, avx_new_zr(f, zr, zi, FMul(zr, zr), FMul(zi, zi), cr),
                           avx_new_zi(f, zr, zi, ci), cr, ci, j + 1, K)

\* The seed z_0 and the constant c of lane k's point.
PointZ0(k) == IF julia_mode THEN <<Lane(re4(re0, scale), k), im>> ELSE <<0, 0>>
PointC(k) == IF julia_mode THEN <<julia_re, julia_im>> ELSE <<Lane(re4(re0, scale), k), im>>

SameUnderCap(outs, p, q, k) ==
    (Escaped(Lane(outs[p], k)) /\ max_iter[q] * One >= Lane(outs[p], k)[2] + One)
        => Lane(outs[q], k) = Lane(outs[p], k)

\* C9: for a point that escapes at index i under cap K, the same kernel run
\* with any cap K' >= i+1 reports the same index and the same |z|^2 at
\* escape; in the vector kernel for each lane, whenever the other lanes escape.
C9_EscapeIndependentOfCap ==
    /\ Len(smooth) = 2 =>
          \A k \in Lanes : SameUnderCap(smooth, 1, 2, k) /\ SameUnderCap(smooth, 2, 1, k)
    /\ Len(smooth4) = 2 =>
          \A k \in Lanes : SameUnderCap(smooth4, 1, 2, k) /\ SameUnderCap(smooth4, 2, 1, k)

\* A lane escaped under the smaller cap while another lane was still active
\* at that cap and escaped later under the larger one.
C9_Witness ==
    /\ Len(smooth) = 2
    /\ max_iter[1] < max_iter[2]
    /\ \E k1 \in Lanes, k2 \in Lanes :
          /\ Escaped(Lane(smooth4[1], k1))
          /\ Lane(smooth4[1], k1)[2] + One < max_iter[1] * One
          /\ Lane(smooth4[2], k1) = Lane(smooth4[1], k1)
          /\ ~Escaped(Lane(smooth4[1], k2))
          /\ Escaped(Lane(smooth4[2], k2))
          /\ Escaped(Lane(smooth[1], k1))

\* ------------------------------------------------------------------------
\* CpuRenderer's constructor and set_thread_count: the pool is replaced
\* between renders, any number of times, and destroyed at program exit
\* ------------------------------------------------------------------------
\* Values std::thread::hardware_concurrency() returns; 0 when not computable.
HardwareConcurrency == 0..MaxWorkers

\* if (n < 1) n = 4;
DefaultThreads == 4

\* int n = static_cast<int>(std::thread::hardware_concurrency()); if (n < 1) n = 4;
DetectedThreads(hc) == IF hc < 1 THEN DefaultThreads ELSE hc

\* Arguments the callers of set_thread_count pass.
ThreadCountArgs == (-1)..(MaxWorkers + 1)

\* Variant: the argument is used as it comes.
ThreadCountFor_Unchecked(n, hw) == n

\* if (n < 1) n = hw_concurrency;
ThreadCountFor(n, hw) == IF n < 1 THEN hw ELSE n

InitLifecycle ==
    /\ \E hc \in HardwareConcurrency : workers = 1..DetectedThreads(hc)
    /\ tasks = <<>>
    /\ pending = 0
    /\ stopping = FALSE
    /\ mtx = NoOwner
    /\ cv_task = {}
    /\ cv_done = {}
    /\ wpc = [w \in workers |-> "lock"]
    /\ wtask = [w \in workers |-> NoTask]
    /\ use_avx2 \in BOOLEAN
    /\ avx2_active = use_avx2
    /\ TILE_W = 64
    /\ TILE_H = 64
    /\ mpc = "idle"
    /\ vs = 0
    /\ bufW = 0
    /\ bufH = 0
    /\ pixels = <<>>
    /\ tx = 0
    /\ ty = 0
    /\ submitted = 0
    /\ tiles = <<>>
    /\ ran = <<>>
    /\ wcount = <<>>
    /\ waited = FALSE
    /\ reused = FALSE
    /\ spurious = 0
    /\ KernelIdle
    /\ FirstPool
    /\ DispatchIdle
    /\ ObsIdle
    /\ GuiIdle

\* set_thread_count(n): if (n < 1) n = hw_concurrency;
\* pool = std::make_unique<ThreadPool>(n): the new pool is constructed, its
\* workers start, the pointer is replaced and the old pool's destructor begins.
SetThreadCount ==
    /\ mpc = "idle"
    /\ \E n \in ThreadCountArgs :
          /\ stc_arg' = n
          /\ stc_n' = ThreadCountFor(n, hw_concurrency)
    /\ workers' = 1..stc_n'
    /\ wpc' = [w \in workers' |-> "lock"]
    /\ wtask' = [w \in workers' |-> NoTask]
    /\ tasks' = <<>>
    /\ pending' = 0
    /\ stopping' = FALSE
    /\ mtx' = NoOwner
    /\ cv_task' = {}
    /\ cv_done' = {}
    /\ old_wpc' = wpc
    /\ old_stopping' = stopping
    /\ old_cv_task' = cv_task
    /\ mpc' = "stc_stop"
    /\ UNCHANGED <<use_avx2, avx2_active, TILE_W, TILE_H, vs, bufW, bufH, pixels, tx, ty>>
    /\ UNCHANGED histVars
    /\ UNCHANGED kernVars
    /\ UNCHANGED <<thread_count, hw_concurrency, inflight, stop_wpc, stop_queue>>
    /\ UNCHANGED dispVars
    /\ UNCHANGED <<obsVars, guiVars>>

\* ~ThreadPool of the old pool: { lock_guard lock(mtx); stopping = true; }
OldDtorStop ==
    /\ mpc = "stc_stop"
    /\ old_stopping' = TRUE
    /\ mpc' = "stc_notify"
    /\ UNCHANGED poolVars
    /\ UNCHANGED <<use_avx2, avx2_active, TILE_W, TILE_H, vs, bufW, bufH, pixels, tx, ty>>
    /\ UNCHANGED histVars
    /\ UNCHANGED kernVars
    /\ UNCHANGED <<thread_count, hw_concurrency, old_wpc, old_cv_task, inflight, stop_wpc, stop_queue, stc_arg, stc_n>>
    /\ UNCHANGED dispVars
    /\ UNCHANGED <<obsVars, guiVars>>

\* ~ThreadPool of the old pool: cv_task.notify_all();
OldDtorNotify ==
    /\ mpc = "stc_notify"
    /\ old_wpc' = [w \in DOMAIN old_wpc |-> IF w \in old_cv_task THEN "lock" ELSE old_wpc[w]]
    /\ old_cv_task' = {}
    /\ mpc' = "stc_join"
    /\ UNCHANGED poolVars
    /\ UNCHANGED <<use_avx2, avx2_active, TILE_W, TILE_H, vs, bufW, bufH, pixels, tx, ty>>
    /\ UNCHANGED histVars
    /\ UNCHANGED kernVars
    /\ UNCHANGED <<thread_count, hw_concurrency, old_stopping, inflight, stop_wpc, stop_queue, stc_arg, stc_n>>
    /\ UNCHANGED dispVars
    /\ UNCHANGED <<obsVars, guiVars>>

\* for (auto& t : workers) t.join(); returns once every thread has ended.
OldJoined == \A w \in DOMAIN old_wpc : old_wpc[w] = "exited"

\* The old pool's destructor returns; thread_count = n; set_thread_count returns.
OldDtorJoin ==
    /\ mpc = "stc_join"
    /\ OldJoined
    /\ thread_count' = stc_n
    /\ mpc' = "stc_ret"
    /\ UNCHANGED poolVars
    /\ UNCHANGED <<use_avx2, avx2_active, TILE_W, TILE_H, vs, bufW, bufH, pixels, tx, ty>>
    /\ UNCHANGED histVars
    /\ UNCHANGED kernVars
    /\ UNCHANGED <<hw_concurrency, old_wpc, old_stopping, old_cv_task, inflight, stop_wpc, stop_queue, stc_arg, stc_n>>
    /\ UNCHANGED dispVars
    /\ UNCHANGED <<obsVars, guiVars>>

\* Control is back in the caller of set_thread_count; the old pool is gone.
SetThreadCountReturned ==
    /\ mpc = "stc_ret"
    /\ mpc' = "idle"
    /\ old_wpc' = <<>>
    /\ old_stopping' = FALSE
    /\ old_cv_task' = {}
    /\ UNCHANGED poolVars
    /\ UNCHANGED <<use_avx2, avx2_active, TILE_W, TILE_H, vs, bufW, bufH, pixels, tx, ty>>
    /\ UNCHANGED histVars
    /\ UNCHANGED kernVars
    /\ UNCHANGED <<thread_count, hw_concurrency, inflight, stop_wpc, stop_queue, stc_arg, stc_n>>
    /\ UNCHANGED dispVars
    /\ UNCHANGED <<obsVars, guiVars>>

\* worker_loop of a worker of the old pool, whose queue is empty:
\* cv_task.wait(lock, pred) with !tasks.empty() || stopping false.
OldWorkerSleep(w) ==
    /\ old_wpc[w] = "lock"
    /\ ~old_stopping
    /\ old_wpc' = [old_wpc EXCEPT ![w] = "sleep"]
    /\ old_cv_task' = old_cv_task \cup {w}
    /\ UNCHANGED poolVars
    /\ UNCHANGED rendVars
    /\ UNCHANGED histVars
    /\ UNCHANGED kernVars
    /\ UNCHANGED <<thread_count, hw_concurrency, old_stopping, inflight, stop_wpc, stop_queue, stc_arg, stc_n>>
    /\ UNCHANGED dispVars
    /\ UNCHANGED <<obsVars, guiVars>>

\* worker_loop of a worker of the old pool: if (stopping && tasks.empty()) return;
OldWorkerExit(w) ==
    /\ old_wpc[w] = "lock"
    /\ old_stopping
    /\ old_wpc' = [old_wpc EXCEPT ![w] = "exited"]
    /\ UNCHANGED poolVars
    /\ UNCHANGED rendVars
    /\ UNCHANGED histVars
    /\ UNCHANGED kernVars
    /\ UNCHANGED <<thread_count, hw_concurrency, old_stopping, old_cv_task, inflight,
                   stop_wpc, stop_queue, stc_arg, stc_n>>
    /\ UNCHANGED dispVars
    /\ UNCHANGED <<obsVars, guiVars>>

NextLifecycle ==
    \/ SetThreadCount
    \/ OldDtorStop
    \/ OldDtorNotify
    \/ OldDtorJoin
    \/ SetThreadCountReturned
    \/ \E w \in DOMAIN old_wpc : OldWorkerSleep(w)
    \/ \E w \in DOMAIN old_wpc : OldWorkerExit(w)
    \/ \E w \in workers : WorkerSleep(w)
    \/ \E w \in workers : WorkerExit(w)
    \/ DtorStop
    \/ DtorNotify
    \/ DtorJoin

SpecLifecycle == InitLifecycle /\ [][NextLifecycle]_vars

\* C11: when set_thread_count(n) returns the renderer's pool has exactly n
\* workers and thread_count = n if n >= 1, exactly hw_concurrency >= 1 workers
\* if n <= 0, and every worker of the previous pool has exited; after
\* construction and any sequence of calls the pool never has zero workers.
C11_PoolRebuilt ==
    /\ hw_concurrency >= 1
    /\ Cardinality(workers) >= 1
    /\ mpc = "stc_ret" =>
          /\ stc_arg >= 1 => (Cardinality(workers) = stc_arg /\ thread_count = stc_arg)
          /\ stc_arg <= 0 => Cardinality(workers) = hw_concurrency
          /\ \A w \in DOMAIN old_wpc : old_wpc[w] = "exited"
          /\ \A w \in workers : wpc[w] # "exited"

\* set_thread_count(n) with n <= 0 returned, having replaced a pool of another
\* size in which a worker was asleep when its destructor began.
C11_Witness ==
    /\ mpc = "stc_ret"
    /\ stc_arg <= 0
    /\ Cardinality(DOMAIN old_wpc) # Cardinality(workers)
    /\ hw_concurrency = DefaultThreads
    /\ \E w \in workers : wpc[w] = "sleep"

\* ------------------------------------------------------------------------
\* A ThreadPool used through its public interface: a client submits up to
\* MaxTasks tasks and destroys the pool at any moment between two calls
\* ------------------------------------------------------------------------
InitShutdown ==
    /\ workers \in {1..n : n \in 1..MaxWorkers}
    /\ tasks = <<>>
    /\ pending = 0
    /\ stopping = FALSE
    /\ mtx = NoOwner
    /\ cv_task = {}
    /\ cv_done = {}
    /\ wpc = [w \in workers |-> "lock"]
    /\ wtask = [w \in workers |-> NoTask]
    /\ use_avx2 = FALSE
    /\ avx2_active = use_avx2
    /\ TILE_W = 64
    /\ TILE_H = 64
    /\ mpc = "idle"
    /\ vs = 0
    /\ bufW = 0
    /\ bufH = 0
    /\ pixels = <<>>
    /\ tx = 0
    /\ ty = 0
    /\ submitted = 0
    /\ tiles = <<>>
    /\ ran = <<>>
    /\ wcount = <<>>
    /\ waited = FALSE
    /\ reused = FALSE
    /\ spurious = 0
    /\ KernelIdle
    /\ FirstPool
    /\ DispatchIdle
    /\ ObsIdle
    /\ GuiIdle

\* The client calls submit(f).
ClientSubmit ==
    /\ mpc = "idle"
    /\ Len(tiles) < MaxTasks
    /\ mpc' = "submit"
    /\ UNCHANGED poolVars
    /\ UNCHANGED <<use_avx2, avx2_active, TILE_W, TILE_H, vs, bufW, bufH, pixels, tx, ty>>
    /\ UNCHANGED histVars
    /\ UNCHANGED kernVars
    /\ UNCHANGED extVars

\* submit has returned to the client.
ClientContinue ==
    /\ mpc = "tile_loop"
    /\ mpc' = "idle"
    /\ UNCHANGED poolVars
    /\ UNCHANGED <<use_avx2, avx2_active, TILE_W, TILE_H, vs, bufW, bufH, pixels, tx, ty>>
    /\ UNCHANGED histVars
    /\ UNCHANGED kernVars
    /\ UNCHANGED extVars

NextShutdown ==
    \/ ClientSubmit
    \/ SubmitInc
    \/ SubmitPush
    \/ SubmitNotify
    \/ ClientContinue
    \/ \E w \in workers : Worker(w)
    \/ SpuriousWake
    \/ DtorStop
    \/ DtorNotify
    \/ DtorJoin

SpecShutdown == InitShutdown /\ [][NextShutdown]_vars

FairSpecShutdown == InitShutdown /\ [][NextShutdown]_vars /\ Fairness

\* The tasks still in the queue.
Queued == {tasks[j].id : j \in DOMAIN tasks}

\* C12: when ~ThreadPool returns every worker thread has exited, and every
\* task a worker had dequeued (before or after shutdown was requested) has
\* run exactly once and its completion has been recorded; no worker left
\* holding a task.
C12_ShutdownFinishesStartedTasks ==
    mpc = "destroyed" =>
        /\ \A w \in workers : wpc[w] = "exited" /\ wtask[w] = NoTask
        /\ \A id \in inflight : ran[id] = 1
        /\ \A id \in (1..Len(tiles)) \ Queued : ran[id] = 1
        /\ pending = Len(tasks)

\* The destructor returned after being called while two workers were each
\* holding a dequeued task.
C12_Witness ==
    /\ mpc = "destroyed"
    /\ Cardinality(inflight) >= 2
    /\ \E w \in workers : stop_wpc[w] = "run"

\* C13: if every task terminates, ~ThreadPool eventually returns: once
\* stopping is set no worker stays blocked on cv_task for ever, wherever the
\* workers were when shutdown was requested.
C13_ShutdownReturns == (mpc = "dtor_notify") ~> (mpc = "destroyed")

\* The destructor returned after being called while one worker was asleep on
\* cv_task and another was about to lock the mutex with a task in the queue.
C13_Witness ==
    /\ mpc = "destroyed"
    /\ \E w \in workers : stop_wpc[w] = "sleep"
    /\ \E w \in workers : stop_wpc[w] = "lock"
    /\ Len(tiles) >= 1

\* The workers that have dequeued a task whose completion is not recorded.
Holding == {w \in workers : wpc[w] \in {"run", "ran"}}

\* C26: whenever the mutex is not held, pending equals the number of tasks
\* in the queue plus the number of tasks dequeued whose completion has not
\* been recorded yet; pending is never negative.
C26_PendingCounts ==
    /\ pending >= 0
    /\ mtx = NoOwner => pending = Len(tasks) + Cardinality(Holding)

\* The mutex is free with one task in the queue, one being run and one run
\* whose completion is not recorded yet.
C26_Witness ==
    /\ mtx = NoOwner
    /\ Len(tasks) = 1
    /\ \E w, u \in workers : wpc[w] = "run" /\ wpc[u] = "ran"
    /\ pending = 3

\* Where task id is: the number of queue entries holding it, plus the number
\* of workers about to run it, plus the number of times it has run.
TaskCopies(id) ==
    Cardinality({j \in DOMAIN tasks : tasks[j].id = id})
    + Cardinality({w \in workers : wpc[w] = "run" /\ wtask[w].id = id})
    + ran[id]

\* C27: every submitted task is in exactly one place: in the queue once, or
\* dequeued by one worker that has not run it yet, or run once.  No task is
\* ever held by two workers, and when pending is 0 every submitted task has
\* run exactly once.
C27_ExactlyOnce ==
    \A id \in DOMAIN ran :
        /\ TaskCopies(id) = 1
        /\ Cardinality({w \in workers : wtask[w].id = id}) <= 1
        /\ (mtx = NoOwner /\ pending = 0) => ran[id] = 1

\* Two workers have each run one task, a third task is still queued.
C27_Witness ==
    /\ \E w, u \in workers :
          /\ wpc[w] = "ran"
          /\ wpc[u] = "ran"
          /\ wtask[w].id # wtask[u].id
          /\ ran[wtask[w].id] = 1
          /\ ran[wtask[u].id] = 1
    /\ Len(tasks) = 1
    /\ ran[tasks[1].id] = 0

\* ~ThreadPool has returned with the queue empty, and every task that was
\* in the queue when it set stopping has run once.
QueueDrained ==
    mpc = "destroyed" =>
        /\ tasks = <<>>
        /\ pending = 0
        /\ \A id \in stop_queue : ran[id] = 1

\* A worker leaves worker_loop in this step.
WorkerLeaves(w) == wpc[w] # "exited" /\ wpc'[w] = "exited"

\* C28: the tasks that are in the queue when the pool is destroyed have all
\* run when the destructor returns; a worker leaves its loop only with
\* stopping set and the queue empty.
C28_QueuedTasksRunBeforeExit ==
    /\ []QueueDrained
    /\ [][\A w \in workers : WorkerLeaves(w) => (stopping /\ tasks = <<>>)]_vars

\* The destructor returned after being called with two tasks in the queue
\* and a third held by a worker.
C28_Witness ==
    /\ mpc = "destroyed"
    /\ Cardinality(stop_queue) = 2
    /\ Cardinality(inflight) = 1

\* ------------------------------------------------------------------------
\* Kernel selection: the scalar switch and the vector smooth switch of
\* render_tile, and avx_lyapunov_4
\* ------------------------------------------------------------------------
\* The 7 values of FormulaType.
FormulaTypes == Formulas \cup {"MultiFast", "MultiSlow"}

\* The range of int.
IntMax == 2147483647
IntMin == -IntMax - 1

\* A double x used as real exponent is kept as [w, h, d], standing for
\* w + h/2 + d * 1e-10 with h in {0, 1} and |d| <= 2 * TolParts: a whole
\* number, an optional half, and an offset counted in tenths of the 1e-9
\* tolerance.
TolParts == 10
Real(w, h, d) == [w |-> w, h |-> h, d |-> d]

\* x < 0
RealNegative(x) == x.w < 0

\* std::round(x): the nearest whole number, halves away from zero, given as
\* <<w, up>> standing for w + 1 if up and for w otherwise.
StdRound(x) ==
    IF x.h = 0 THEN <<x.w, FALSE>>
    ELSE IF x.d > 0 THEN <<x.w, TRUE>>
    ELSE IF x.d < 0 THEN <<x.w, FALSE>>
    ELSE <<x.w, ~RealNegative(x)>>

\* static_cast<int>(r) of the whole number r = <<w, up>>: the set of values
\* the conversion can produce.  A value outside the range of int makes the
\* conversion undefined; any int may result.
CastToInt(r) ==
    IF r[2] /\ r[1] = IntMax THEN {IntMin, -1, 0, 2, 3, IntMax}
    ELSE {IF r[2] THEN r[1] + 1 ELSE r[1]}

\* std::abs(x - n) < 1e-9 for an int n.  With w # n the difference is at
\* least 1 - 1/2 - 2e-9 in magnitude.
AbsDiffBelowTol(x, n) == x.w = n /\ x.h = 0 /\ -TolParts < x.d /\ x.d < TolParts

\* Variant: the promotion has no lower bound on n.
PromotedExponent_NoLowerBound(x, n) == IF AbsDiffBelowTol(x, n) THEN n ELSE 0

\* return (n >= 2 && std::abs(exp_f - n) < 1e-9) ? n : 0;
PromotedExponent(x, n) == IF n >= 2 /\ AbsDiffBelowTol(x, n) THEN n ELSE 0

\* render_tile: const int slow_int_n = [&]() -> int { ... }(), with n the
\* outcome of static_cast<int>(std::round(vs.multibrot_exp_f)).
render_tile_slow_int_n(f, x, n) ==
    IF f # "MultiSlow" THEN 0 ELSE PromotedExponent(x, n)

\* avx_lyapunov_4: const int slow_int_n = [&]() -> int { ... }()
lyapunov_slow_int_n(f, x, n) ==
    IF f # "MultiSlow" THEN 0 ELSE PromotedExponent(x, n)

\* A kernel instantiation and the exponent it is called with:
\* scalar_kernel / avx_kernel <IsJulia, IsBurningShip, IsMandelbar, AbsRe, AbsIm>,
DegreeTwo(j, bs, mb, ar, ai) ==
    [template |-> "kernel", IsJulia |-> j, IsBurningShip |-> bs, IsMandelbar |-> mb,
     AbsRe |-> ar, AbsIm |-> ai, n |-> 2, exp_n |-> <<>>]

\* scalar_multibrot_kernel / avx_multibrot_kernel <IsJulia, IsMandelbar>(..., n),
IntegerExp(j, mb, n) ==
    [template |-> "multibrot_kernel", IsJulia |-> j, IsBurningShip |-> FALSE,
     IsMandelbar |-> mb, AbsRe |-> FALSE, AbsIm |-> FALSE, n |-> n, exp_n |-> <<>>]

\* scalar_multibrot_slow_kernel / avx_multibrot_slow_kernel <IsJulia>(..., exp_n).
RealExp(j, x) ==
    [template |-> "multibrot_slow_kernel", IsJulia |-> j, IsBurningShip |-> FALSE,
     IsMandelbar |-> FALSE, AbsRe |-> FALSE, AbsIm |-> FALSE, n |-> 0, exp_n |-> x]

\* The scalar switch of render_tile, through the named wrappers of fractal.hpp.
ScalarSwitch(f, j, e, x, sn) ==
    CASE f = "Standard"    -> DegreeTwo(j, FALSE, FALSE, FALSE, FALSE)
      [] f = "BurningShip" -> DegreeTwo(j, TRUE, FALSE, FALSE, FALSE)
      [] f = "Mandelbar"   -> IF e = 2 THEN DegreeTwo(j, FALSE, TRUE, FALSE, FALSE)
                                       ELSE IntegerExp(j, TRUE, e)
      [] f = "MultiFast"   -> IF e = 2 THEN DegreeTwo(j, FALSE, FALSE, FALSE, FALSE)
                                       ELSE IntegerExp(j, FALSE, e)
      [] f = "MultiSlow"   -> IF sn > 0
                              THEN IF sn = 2 THEN DegreeTwo(j, FALSE, FALSE, FALSE, FALSE)
                                             ELSE IntegerExp(j, FALSE, sn)
                              ELSE RealExp(j, x)
      [] f = "Celtic"      -> DegreeTwo(j, FALSE, FALSE, TRUE, FALSE)
      [] f = "Buffalo"     -> DegreeTwo(j, FALSE, FALSE, TRUE, TRUE)

\* The vector smooth switch of render_tile, through the entry points of
\* cpu_renderer_avx.cpp.
VectorSwitch(f, j, e, x, sn) ==
    CASE f = "Standard"    -> DegreeTwo(j, FALSE, FALSE, FALSE, FALSE)
      [] f = "BurningShip" -> DegreeTwo(j, TRUE, FALSE, FALSE, FALSE)
      [] f = "Mandelbar"   -> IF e = 2 THEN DegreeTwo(j, FALSE, TRUE, FALSE, FALSE)
                                       ELSE IntegerExp(j, TRUE, e)
      [] f = "MultiFast"   -> IF e = 2 THEN DegreeTwo(j, FALSE, FALSE, FALSE, FALSE)
                                       ELSE IntegerExp(j, FALSE, e)
      [] f = "MultiSlow"   -> IF sn > 0
                              THEN IF sn = 2 THEN DegreeTwo(j, FALSE, FALSE, FALSE, FALSE)
                                             ELSE IntegerExp(j, FALSE, sn)
                              ELSE RealExp(j, x)
      [] f = "Celtic"      -> DegreeTwo(j, FALSE, FALSE, TRUE, FALSE)
      [] f = "Buffalo"     -> DegreeTwo(j, FALSE, FALSE, TRUE, TRUE)

\* The switch of avx_lyapunov_4 (ComputeLyapunov = true in every case).
LyapunovSwitch(f, j, e, x, sn) ==
    CASE f = "Standard"    -> DegreeTwo(j, FALSE, FALSE, FALSE, FALSE)
      [] f = "BurningShip" -> DegreeTwo(j, TRUE, FALSE, FALSE, FALSE)
      [] f = "Celtic"      -> DegreeTwo(j, FALSE, FALSE, TRUE, FALSE)
      [] f = "Buffalo"     -> DegreeTwo(j, FALSE, FALSE, TRUE, TRUE)
      [] f = "Mandelbar"   -> IF e = 2 THEN DegreeTwo(j, FALSE, TRUE, FALSE, FALSE)
                                       ELSE IntegerExp(j, TRUE, e)
      [] f = "MultiFast"   -> IF e = 2 THEN DegreeTwo(j, FALSE, FALSE, FALSE, FALSE)
                                       ELSE IntegerExp(j, FALSE, e)
      [] f = "MultiSlow"   -> IF sn > 0
                              THEN IF sn = 2 THEN DegreeTwo(j, FALSE, FALSE, FALSE, FALSE)
                                             ELSE IntegerExp(j, FALSE, sn)
                              ELSE RealExp(j, x)

\* Integer exponents of the configuration (the slider allows 2..8).
IntExponents == 2..MaxExp

\* Real exponents of the configuration: whole numbers from -2 to MaxExp + 1
\* and numbers close to them, inside and outside the tolerance; numbers
\* halfway between two whole numbers and next to those; and the largest
\* doubles whose rounding leaves the range of int.
RealExponents ==
    {Real(w, 0, d) : w \in (-2)..(MaxExp + 1), d \in {-11, -9, -1, 0, 1, 9, 11}}
    \cup {Real(w, 1, d) : w \in (-2)..2, d \in {-1, 0, 1}}
    \cup {Real(IntMax, 0, 0), Real(IntMax, 1, 0)}

InitDispatch ==
    /\ workers = {1}
    /\ tasks = <<>>
    /\ pending = 0
    /\ stopping = FALSE
    /\ mtx = NoOwner
    /\ cv_task = {}
    /\ cv_done = {}
    /\ wpc = [w \in workers |-> "lock"]
    /\ wtask = [w \in workers |-> NoTask]
    /\ use_avx2 = TRUE
    /\ avx2_active = use_avx2
    /\ TILE_W = 64
    /\ TILE_H = 64
    /\ mpc = "idle"
    /\ vs = 0
    /\ bufW = 0
    /\ bufH = 0
    /\ pixels = <<>>
    /\ tx = 0
    /\ ty = 0
    /\ submitted = 0
    /\ tiles = <<>>
    /\ ran = <<>>
    /\ wcount = <<>>
    /\ waited = FALSE
    /\ reused = FALSE
    /\ spurious = 0
    /\ formula \in FormulaTypes
    /\ julia_mode \in BOOLEAN
    /\ julia_re = 0
    /\ julia_im = 0
    /\ re0 = 0
    /\ scale = 0
    /\ im = 0
    /\ max_iter = <<>>
    /\ smooth = <<>>
    /\ smooth4 = <<>>
    /\ FirstPool
    /\ multibrot_exp \in IntExponents
    /\ multibrot_exp_f \in RealExponents
    /\ slow_int_n = <<>>
    /\ scalar_call = <<>>
    /\ vector_call = <<>>
    /\ lyap_slow_int_n = <<>>
    /\ lyap_call = <<>>
    /\ ObsIdle
    /\ GuiIdle

\* render_tile computes slow_int_n once per tile.
TileSlowIntN ==
    /\ slow_int_n = <<>>
    /\ \E n \in CastToInt(StdRound(multibrot_exp_f)) :
          slow_int_n' = <<render_tile_slow_int_n(formula, multibrot_exp_f, n)>>
    /\ UNCHANGED <<multibrot_exp, multibrot_exp_f, scalar_call, vector_call,
                   lyap_slow_int_n, lyap_call>>
    /\ UNCHANGED <<poolVars, rendVars, histVars, kernVars, lifeVars, obsVars, guiVars>>

\* render_tile with color_mode == COLOR_SMOOTH: a group of 4 pixels goes
\* through the vector switch.
TileVectorSwitch ==
    /\ slow_int_n # <<>>
    /\ vector_call = <<>>
    /\ vector_call' = <<VectorSwitch(formula, julia_mode, multibrot_exp,
                                     multibrot_exp_f, slow_int_n[1])>>
    /\ UNCHANGED <<multibrot_exp, multibrot_exp_f, slow_int_n, scalar_call,
                   lyap_slow_int_n, lyap_call>>
    /\ UNCHANGED <<poolVars, rendVars, histVars, kernVars, lifeVars, obsVars, guiVars>>

\* render_tile: a remainder pixel goes through the scalar switch.
TileScalarSwitch ==
    /\ slow_int_n # <<>>
    /\ scalar_call = <<>>
    /\ scalar_call' = <<ScalarSwitch(formula, julia_mode, multibrot_exp,
                                     multibrot_exp_f, slow_int_n[1])>>
    /\ UNCHANGED <<multibrot_exp, multibrot_exp_f, slow_int_n, vector_call,
                   lyap_slow_int_n, lyap_call>>
    /\ UNCHANGED <<poolVars, rendVars, histVars, kernVars, lifeVars, obsVars, guiVars>>

\* render_tile with a Lyapunov colour mode: avx_lyapunov_4(vs.formula,
\* vs.julia_mode, ..., vs.multibrot_exp, vs.multibrot_exp_f, ...)
CallLyapunov4 ==
    /\ lyap_call = <<>>
    /\ \E n \in CastToInt(StdRound(multibrot_exp_f)) :
          /\ lyap_slow_int_n' = <<lyapunov_slow_int_n(formula, multibrot_exp_f, n)>>
          /\ lyap_call' = <<LyapunovSwitch(formula, julia_mode, multibrot_exp,
                                           multibrot_exp_f, lyap_slow_int_n'[1])>>
    /\ UNCHANGED <<multibrot_exp, multibrot_exp_f, slow_int_n, scalar_call, vector_call>>
    /\ UNCHANGED <<poolVars, rendVars, histVars, kernVars, lifeVars, obsVars, guiVars>>

NextDispatch ==
    \/ TileSlowIntN
    \/ TileVectorSwitch
    \/ TileScalarSwitch
    \/ CallLyapunov4

SpecDispatch == InitDispatch /\ [][NextDispatch]_vars

\* The three switches have run for a real-exponent configuration.
RealExpDispatched ==
    /\ formula = "MultiSlow"
    /\ scalar_call # <<>>
    /\ vector_call # <<>>
    /\ lyap_call # <<>>

\* The exponent is within 1e-9 of a whole number.
NearWhole(x) == x.h = 0 /\ -TolParts < x.d /\ x.d < TolParts

SmoothN(iters, r2, n) == <<"smooth", iters, r2, n>>

\* for (int k = 1; k < n; ++k) { new_pr = pr*zr - pi*zi; pi = pr*zi + pi*zr;
\* pr = new_pr; }: <<pr, pi>> after the loop, entered with counter k.
RECURSIVE complex_pow(_, _, _, _, _, _)
complex_pow(pr, pi, zr, zi, k, n) ==
    IF k < n
    THEN complex_pow(FSub(FMul(pr, zr), FMul(pi, zi)),
                     FAdd(FMul(pr, zi), FMul(pi, zr)), zr, zi, k + 1, n)
    ELSE <<pr, pi>>

\* zi = (IsMandelbar ? -pi : pi) + c_im
multibrot_new_zi(mb, pi, c_im) == FAdd(IF mb THEN -pi ELSE pi, c_im)

\* The while loop of scalar_multibrot_kernel from iteration i on.
RECURSIVE scalar_multibrot_loop(_, _, _, _, _, _, _, _)
scalar_multibrot_loop(mb, zr, zi, c_re, c_im, i, K, n) ==
    IF i < K
    THEN LET zr2 == FMul(zr, zr)
             zi2 == FMul(zi, zi)
             p == complex_pow(zr, zi, zr, zi, 1, n)
         IN IF FAdd(zr2, zi2) > Four
            THEN SmoothN(FromInt(i), FAdd(zr2, zi2), n)
            ELSE scalar_multibrot_loop(mb, FAdd(p[1], c_re), multibrot_new_zi(mb, p[2], c_im),
                                       c_re, c_im, i + 1, K, n)
    ELSE Cap(K)

scalar_multibrot_kernel(IsJulia, mb, re, imv, cr, ci, K, n) ==
    scalar_multibrot_loop(mb, IF IsJulia THEN re ELSE 0, IF IsJulia THEN imv ELSE 0,
                          IF IsJulia THEN cr ELSE re, IF IsJulia THEN ci ELSE imv, 0, K, n)

\* The scalar switch of render_tile for Mandelbar and MultiFast:
\* mandelbar_iter, mandelbar_julia_iter, mandelbrot_iter, julia_iter for
\* exponent 2; mandelbar_multi_iter, mandelbar_multi_julia_iter,
\* multibrot_iter, multijulia_iter otherwise.
scalar_power_iter(f, IsJulia, n, re, imv, jre, jim, K) ==
    IF n = 2
    THEN scalar_iter(IF IsMandelbar(f) THEN "Mandelbar" ELSE "Standard",
                     IsJulia, re, imv, jre, jim, K)
    ELSE IF IsJulia THEN scalar_multibrot_kernel(TRUE, IsMandelbar(f), re, imv, jre, jim, K, n)
                    ELSE scalar_multibrot_kernel(FALSE, IsMandelbar(f), re, imv, 0, 0, K, n)

\* The z update of avx_multibrot_kernel, the freeze of escaped lanes and the
\* counter.  s carries the active mask the escape test has just computed.
\* The power is computed for the lanes whose result the blend keeps.
avx_multibrot_update(mb, n, s) ==
    [s EXCEPT
        !.zr = Vec(LAMBDA k :
                     IF Lane(s.active, k)
                     THEN FAdd(complex_pow(Lane(s.zr, k), Lane(s.zi, k),
                                           Lane(s.zr, k), Lane(s.zi, k), 1, n)[1],
                               Lane(s.cr, k))
                     ELSE Lane(s.zr, k)),
        !.zi = Vec(LAMBDA k :
                     IF Lane(s.active, k)
                     THEN multibrot_new_zi(mb, complex_pow(Lane(s.zr, k), Lane(s.zi, k),
                                                           Lane(s.zr, k), Lane(s.zi, k), 1, n)[2],
                                           Lane(s.ci, k))
                     ELSE Lane(s.zi, k)),
        !.iters_d = Vec(LAMBDA k : FAdd(Lane(s.iters_d, k), CounterStep(Lane(s.active, k))))]

RECURSIVE avx_multibrot_loop(_, _, _, _, _)
avx_multibrot_loop(mb, n, s, i, K) ==
    IF i < K
    THEN LET t == avx_escape_test(s)
         IN IF NoneActive(t) THEN t
            ELSE avx_multibrot_loop(mb, n, avx_multibrot_update(mb, n, t), i + 1, K)
    ELSE s

\* result = blendv(smooth, max_d_v, active); storeu(out4, result)
avx_multibrot_result(s, K, n) ==
    Vec(LAMBDA k : IF Lane(s.active, k) THEN Cap(K)
                   ELSE SmoothN(Lane(s.iters_d, k), Lane(s.final_r2, k), n))

avx_multibrot_kernel(IsJulia, mb, r0, sc, imv, K, n, c_re, c_im) ==
    avx_multibrot_result(
        avx_multibrot_loop(mb, n, avx_seed(IsJulia, r0, sc, imv, c_re, c_im), 0, K), K, n)

\* The vector smooth switch of render_tile for Mandelbar and MultiFast.
avx_power_4(f, IsJulia, n, r0, sc, imv, K, jre, jim) ==
    IF n = 2
    THEN avx_4(IF IsMandelbar(f) THEN "Mandelbar" ELSE "Standard",
               IsJulia, r0, sc, imv, K, jre, jim)
    ELSE IF IsJulia THEN avx_multibrot_kernel(TRUE, IsMandelbar(f), r0, sc, imv, K, n, jre, jim)
                    ELSE avx_multibrot_kernel(FALSE, IsMandelbar(f), r0, sc, imv, K, n, 0, 0)

\* ------------------------------------------------------------------------
\* Specification of the integer-exponent formulas: a group of 4 pixels is
\* computed by the vector switch, then pixel by pixel by the scalar switch,
\* then by the scalar switch for the pixels mirrored at the real axis
\* ------------------------------------------------------------------------
PowerFormulas == {"Mandelbar", "MultiFast"}
PowerRe0s == {k * One : k \in -2..1}
PowerJuliaConstants == {<<One \div 4, One \div 2>>}

\* A renderer that is not rendering, and no kernel called yet.
RendererIdle ==
    /\ workers = {1}
    /\ tasks = <<>>
    /\ pending = 0
    /\ stopping = FALSE
    /\ mtx = NoOwner
    /\ cv_task = {}
    /\ cv_done = {}
    /\ wpc = [w \in workers |-> "lock"]
    /\ wtask = [w \in workers |-> NoTask]
    /\ use_avx2 = TRUE
    /\ avx2_active = use_avx2
    /\ TILE_W = 64
    /\ TILE_H = 64
    /\ mpc = "idle"
    /\ vs = 0
    /\ bufW = 0
    /\ bufH = 0
    /\ pixels = <<>>
    /\ tx = 0
    /\ ty = 0
    /\ submitted = 0
    /\ tiles = <<>>
    /\ ran = <<>>
    /\ wcount = <<>>
    /\ waited = FALSE
    /\ reused = FALSE
    /\ spurious = 0
    /\ smooth = <<>>
    /\ smooth4 = <<>>
    /\ FirstPool
    /\ slow_int_n = <<>>
    /\ scalar_call = <<>>
    /\ vector_call = <<>>
    /\ lyap_slow_int_n = <<>>
    /\ lyap_call = <<>>
    /\ ObsIdle
    /\ GuiIdle

InitPower ==
    /\ RendererIdle
    /\ formula \in PowerFormulas
    /\ julia_mode \in BOOLEAN
    /\ \E c \in IF julia_mode THEN PowerJuliaConstants ELSE {<<0, 0>>} :
          /\ julia_re = c[1]
          /\ julia_im = c[2]
    /\ re0 \in PowerRe0s
    /\ scale \in Scales
    /\ im \in Ims
    /\ \E K \in Caps : max_iter = <<K>>
    /\ multibrot_exp \in IntExponents
    /\ multibrot_exp_f = Real(3, 0, 0)

\* The vector path of render_tile calls the entry point for the group.
CallVectorPower ==
    /\ smooth4 = <<>>
    /\ smooth4' = <<avx_power_4(formula, julia_mode, multibrot_exp, re0, scale, im,
                                max_iter[1], julia_re, julia_im)>>
    /\ UNCHANGED <<formula, julia_mode, julia_re, julia_im, re0, scale, im, max_iter, smooth>>
    /\ UNCHANGED <<poolVars, rendVars, histVars, extVars>>

\* The scalar switch is called for the point of each of the 4 lanes.
CallScalarPower ==
    /\ smooth4 # <<>>
    /\ smooth = <<>>
    /\ smooth' = <<Vec(LAMBDA k :
                       scalar_power_iter(formula, julia_mode, multibrot_exp,
                                         Lane(re4(re0, scale), k), im,
                                         julia_re, julia_im, max_iter[1]))>>
    /\ UNCHANGED <<formula, julia_mode, julia_re, julia_im, re0, scale, im, max_iter, smooth4>>
    /\ UNCHANGED <<poolVars, rendVars, histVars, extVars>>

\* The scalar switch is called for the 4 points (x, -y).
CallScalarConj ==
    /\ smooth # <<>>
    /\ smooth_conj = <<>>
    /\ smooth_conj' = <<Vec(LAMBDA k :
                            scalar_power_iter(formula, julia_mode, multibrot_exp,
                                              Lane(re4(re0, scale), k), -im,
                                              julia_re, julia_im, max_iter[1]))>>
    /\ UNCHANGED <<lyap_out, lyap_out4, log_args, log_args4, orbit, lut_reads, kernel_run, guiVars>>
    /\ UNCHANGED <<poolVars, rendVars, histVars, kernVars, lifeVars, dispVars>>

NextPower ==
    \/ CallVectorPower
    \/ CallScalarPower
    \/ CallScalarConj

SpecPower == InitPower /\ [][NextPower]_vars

\* The value max(0.0, iters + 1.0 - nu) of an escaped point is at most K.
\* With a = K - (iters + 1) >= 0 this is nu >= -a, i.e.
\* log_n(sqrt(r2)) >= n^-a, i.e. r2^(n^a) >= n^2.  An escaped point has
\* r2 > 4, so for a >= 1 the left side exceeds 4^n >= n^2; for a = 0 the
\* condition is r2 >= n^2.  (r2 > 4 and n >= 2 make both logarithms'
\* arguments positive, so the value is a number and max(0.0, .) makes it >= 0.)
SmoothAtMostCap(out, K) ==
    LET n == IF Len(out) = 4 THEN out[4] ELSE 2
    IN out[1] = "smooth" =>
          /\ out[2] + One <= FromInt(K)
          /\ (out[2] + One = FromInt(K)) => out[3] >= n * n * One

\* The value returned for an interior point is K.
InteriorIsCap(out, K) == out[1] = "max_iter" => out[2] = FromInt(K)

\* C15: every smooth value a scalar or vector kernel returns lies in [0, K],
\* also for a point that escapes at iteration index K - 1.
C15_SmoothWithinCap ==
    /\ \A p \in 1..Len(smooth) : \A k \in Lanes :
          /\ SmoothAtMostCap(Lane(smooth[p], k), max_iter[p])
          /\ InteriorIsCap(Lane(smooth[p], k), max_iter[p])
    /\ \A p \in 1..Len(smooth4) : \A k \in Lanes :
          /\ SmoothAtMostCap(Lane(smooth4[p], k), max_iter[p])
          /\ InteriorIsCap(Lane(smooth4[p], k), max_iter[p])

\* The conjugate-variant formula in origin-seeded mode, computed for the 4
\* points (x, y) and for the 4 points (x, -y).
MirrorComputed ==
    /\ formula = "Mandelbar"
    /\ ~julia_mode
    /\ smooth # <<>>
    /\ smooth_conj # <<>>

Lyapunov(sm, terms, mags) ==
    [smooth |-> sm, terms |-> terms,
     divisor |-> Larger(Len(terms), 1), mags |-> mags]

\* exp_n of scalar_lyapunov_iter for the integer-exponent formulas.
lyap_exp_n(f, e) == IF f \in {"Mandelbar", "MultiFast"} THEN e ELSE 2

\* The z update of scalar_lyapunov_iter.
lyap_new_zr(f, n, zr, zi, cr) ==
    CASE f = "Standard"    -> FAdd(FSub(FMul(zr, zr), FMul(zi, zi)), cr)
      [] f = "BurningShip" -> FAdd(FSub(FMul(FAbs(zr), FAbs(zr)),
                                        FMul(FAbs(zi), FAbs(zi))), cr)
      [] f = "Celtic"      -> FAdd(FAbs(FSub(FMul(zr, zr), FMul(zi, zi))), cr)
      [] f = "Buffalo"     -> FAdd(FAbs(FSub(FMul(zr, zr), FMul(zi, zi))), cr)
      [] f = "Mandelbar"   -> IF n = 2 THEN FAdd(FSub(FMul(zr, zr), FMul(zi, zi)), cr)
                              ELSE FAdd(complex_pow(zr, zi, zr, zi, 1, n)[1], cr)
      [] f = "MultiFast"   -> FAdd(complex_pow(zr, zi, zr, zi, 1, n)[1], cr)

lyap_new_zi(f, n, zr, zi, ci) ==
    CASE f = "Standard"    -> FAdd(FMul(FMul(Two, zr), zi), ci)
      [] f = "BurningShip" -> FAdd(FMul(FMul(Two, FAbs(zr)), FAbs(zi)), ci)
      [] f = "Celtic"      -> FAdd(FMul(FMul(Two, zr), zi), ci)
      [] f = "Buffalo"     -> FAdd(FAbs(FMul(FMul(Two, zr), zi)), ci)
      [] f = "Mandelbar"   -> IF n = 2 THEN FAdd(FMul(FMul(-Two, zr), zi), ci)
                              ELSE FAdd(-complex_pow(zr, zi, zr, zi, 1, n)[2], ci)
      [] f = "MultiFast"   -> FAdd(complex_pow(zr, zi, zr, zi, 1, n)[2], ci)

\* Variant: a term is added only for an iterate that does not escape.
ScalarAccumulates_NotEscaping(mag2) == mag2 > 0 /\ mag2 <= Four

\* if (mag2 > 0.0)
ScalarAccumulates(mag2) == mag2 > 0

\* The for loop of scalar_lyapunov_iter from iteration i on.
RECURSIVE scalar_lyapunov_loop(_, _, _, _, _, _, _, _, _, _)
scalar_lyapunov_loop(f, n, zr, zi, cr, ci, i, K, terms, mags) ==
    IF i < K
    THEN LET mag2 == FAdd(FMul(zr, zr), FMul(zi, zi))
             acc == IF ScalarAccumulates(mag2) THEN Append(terms, <<i, mag2>>) ELSE terms
         IN IF mag2 > Four
            THEN Lyapunov(SmoothN(FromInt(i), mag2, n), acc, Append(mags, mag2))
            ELSE scalar_lyapunov_loop(f, n, lyap_new_zr(f, n, zr, zi, cr),
                                      lyap_new_zi(f, n, zr, zi, ci), cr, ci, i + 1, K,
                                      acc, Append(mags, mag2))
    ELSE Lyapunov(Cap(K), terms, mags)

scalar_lyapunov_iter(re, imv, f, IsJulia, jre, jim, e, K) ==
    scalar_lyapunov_loop(f, lyap_exp_n(f, e),
                         IF IsJulia THEN re ELSE 0, IF IsJulia THEN imv ELSE 0,
                         IF IsJulia THEN jre ELSE re, IF IsJulia THEN jim ELSE imv,
                         0, K, <<>>, <<>>)

\* Registers at the loop's entry, with the Lyapunov accumulators.
avx_lyap_seed(IsJulia, r0, sc, imv, c_re, c_im) ==
    LET s == avx_seed(IsJulia, r0, sc, imv, c_re, c_im)
    IN [cr |-> s.cr, ci |-> s.ci, zr |-> s.zr, zi |-> s.zi, active |-> s.active,
        iters_d |-> s.iters_d, final_r2 |-> s.final_r2,
        terms |-> Set1(<<>>), mags |-> Set1(<<>>)]

\* accum_mask = active & (mag2 > 1e-200).  1e-200 lies below the least
\* positive number 2^-FracBits of the arithmetic used here.
VectorAccumulates(act, mag2) == act /\ mag2 > 0

\* if constexpr (ComputeLyapunov) { ... } of iteration i.
avx_lyap_accumulate(s, i) ==
    [s EXCEPT
        !.terms = Vec(LAMBDA k :
                        LET mag2 == FAdd(FMul(Lane(s.zr, k), Lane(s.zr, k)),
                                         FMul(Lane(s.zi, k), Lane(s.zi, k)))
                        IN IF VectorAccumulates(Lane(s.active, k), mag2)
                           THEN Append(Lane(s.terms, k), <<i, mag2>>)
                           ELSE Lane(s.terms, k)),
        !.mags = Vec(LAMBDA k :
                       IF Lane(s.active, k)
                       THEN Append(Lane(s.mags, k),
                                   FAdd(FMul(Lane(s.zr, k), Lane(s.zr, k)),
                                        FMul(Lane(s.zi, k), Lane(s.zi, k))))
                       ELSE Lane(s.mags, k))]

\* The for loop of avx_kernel (n = 2) and of avx_multibrot_kernel with
\* ComputeLyapunov = true.
RECURSIVE avx_lyap_loop(_, _, _, _, _, _)
avx_lyap_loop(f, multi, n, s, i, K) ==
    IF i < K
    THEN LET t == avx_escape_test(avx_lyap_accumulate(s, i))
         IN IF NoneActive(t) THEN t
            ELSE avx_lyap_loop(f, multi, n,
                               IF multi THEN avx_multibrot_update(IsMandelbar(f), n, t)
                                        ELSE avx_update(f, t),
                               i + 1, K)
    ELSE s

\* storeu(out4, result); lambda = log_deriv_sum / max(lyap_n_iters, 1);
\* storeu(lyap_out4, lambda)
avx_lyap_result(s, K, n) ==
    Vec(LAMBDA k :
          Lyapunov(IF Lane(s.active, k) THEN Cap(K)
                   ELSE SmoothN(Lane(s.iters_d, k), Lane(s.final_r2, k), n),
                   Lane(s.terms, k), Lane(s.mags, k)))

\* avx_lyapunov_4 for the formulas with an integer exponent.
avx_lyapunov_4(f, IsJulia, r0, sc, imv, K, e, jre, jim) ==
    LET multi == f \in {"Mandelbar", "MultiFast"} /\ e # 2
        g == IF f = "MultiFast" THEN "Standard" ELSE f
        n == IF multi THEN e ELSE 2
    IN avx_lyap_result(
           avx_lyap_loop(g, multi, n,
                         IF IsJulia THEN avx_lyap_seed(TRUE, r0, sc, imv, jre, jim)
                                    ELSE avx_lyap_seed(FALSE, r0, sc, imv, 0, 0),
                         0, K),
           K, n)

\* ------------------------------------------------------------------------
\* Specification of the Lyapunov computation: a group of 4 pixels by
\* avx_lyapunov_4, then pixel by pixel by scalar_lyapunov_iter
\* ------------------------------------------------------------------------
LyapunovFormulas == Formulas \cup {"MultiFast"}

InitLyapunov ==
    /\ RendererIdle
    /\ formula \in LyapunovFormulas
    /\ julia_mode \in BOOLEAN
    /\ \E c \in IF julia_mode THEN PowerJuliaConstants ELSE {<<0, 0>>} :
          /\ julia_re = c[1]
          /\ julia_im = c[2]
    /\ re0 \in PowerRe0s
    /\ scale \in Scales
    /\ im \in Ims
    /\ \E K \in Caps : max_iter = <<K>>
    /\ multibrot_exp \in IF formula \in PowerFormulas THEN IntExponents ELSE {2}
    /\ multibrot_exp_f = Real(3, 0, 0)

\* render_tile in a Lyapunov colour mode calls avx_lyapunov_4 for the group.
CallVectorLyapunov ==
    /\ lyap_out4 = <<>>
    /\ lyap_out4' = avx_lyapunov_4(formula, julia_mode, re0, scale, im, max_iter[1],
                                   multibrot_exp, julia_re, julia_im)
    /\ UNCHANGED <<smooth_conj, lyap_out, log_args, log_args4, orbit, lut_reads, kernel_run, guiVars>>
    /\ UNCHANGED <<poolVars, rendVars, histVars, kernVars, lifeVars, dispVars>>

\* scalar_lyapunov_iter is called for the point of each of the 4 lanes.
CallScalarLyapunov ==
    /\ lyap_out4 # <<>>
    /\ lyap_out = <<>>
    /\ lyap_out' = Vec(LAMBDA k :
                         scalar_lyapunov_iter(Lane(re4(re0, scale), k), im, formula,
                                              julia_mode, julia_re, julia_im,
                                              multibrot_exp, max_iter[1]))
    /\ UNCHANGED <<smooth_conj, lyap_out4, log_args, log_args4, orbit, lut_reads, kernel_run, guiVars>>
    /\ UNCHANGED <<poolVars, rendVars, histVars, kernVars, lifeVars, dispVars>>

NextLyapunov ==
    \/ CallVectorLyapunov
    \/ CallScalarLyapunov

SpecLyapunov == InitLyapunov /\ [][NextLyapunov]_vars

\* The results of the scalar routine and of the vector lanes.
LyapunovResults ==
    {Lane(lyap_out, k) : k \in IF lyap_out = <<>> THEN {} ELSE Lanes}
    \cup {Lane(lyap_out4, k) : k \in IF lyap_out4 = <<>> THEN {} ELSE Lanes}

\* The terms of the iterates z_0 ... z_(m-1) with |z|^2 > 0.
TermsUpTo(r, m) == {<<j - 1, r.mags[j]>> : j \in {j \in 1..m : r.mags[j] > 0}}

TermsOf(r) == {r.terms[t] : t \in DOMAIN r.terms}

\* The completed-iteration index at which an escaped point escaped.
EscapeIndex(r) == r.smooth[2] \div One

\* The loop body began K times for an interior point and i + 1 times for a
\* point that escaped at index i, and the sum is divided by max(count, 1).
LyapunovShape(r, K) ==
    /\ r.divisor = Larger(Len(r.terms), 1)
    /\ Len(r.mags) = IF Escaped(r.smooth) THEN EscapeIndex(r) + 1 ELSE K
    /\ Escaped(r.smooth) => r.mags[Len(r.mags)] = r.smooth[3]

SmoothX(iters, r2, x) == <<"smooth", iters, r2, "exp_n", x>>

\* (zr + i zi)^w, exactly: <<re, im>> in units of 2^-(w * FracBits).
RECURSIVE exact_pow(_, _, _, _, _, _)
exact_pow(pr, pi, zr, zi, k, w) ==
    IF k < w THEN exact_pow(pr * zr - pi * zi, pr * zi + pi * zr, zr, zi, k + 1, w)
             ELSE <<pr, pi>>

\* r_n * cos(n * theta) and r_n * sin(n * theta) with r_n = exp(n * log(mag2) * 0.5)
\* and theta = atan2(zi, zr), for z # 0 and an exponent n = x.w + x.d * 1e-10
\* with x.w >= 1.  exp, log, atan2, cos and sin are taken as exact and the
\* product is rounded once; the offset x.d * 1e-10 changes the product by
\* less than the arithmetic used here resolves.
polar_pow(zr, zi, x) ==
    LET p == exact_pow(zr, zi, zr, zi, 1, x.w)
    IN <<RoundFloat(p[1], (x.w - 1) * FracBits), RoundFloat(p[2], (x.w - 1) * FracBits)>>

\* The while loop of scalar_multibrot_slow_kernel from iteration i on; logs
\* holds the |z|^2 arguments std::log has been called with.
RECURSIVE scalar_slow_loop(_, _, _, _, _, _, _, _)
scalar_slow_loop(zr, zi, c_re, c_im, i, K, x, logs) ==
    IF i < K
    THEN LET mag2 == FAdd(FMul(zr, zr), FMul(zi, zi))
         IN IF mag2 > Four
            THEN [out |-> SmoothX(FromInt(i), mag2, x), logs |-> Append(logs, mag2)]
            ELSE IF mag2 = 0
            THEN scalar_slow_loop(c_re, c_im, c_re, c_im, i + 1, K, x, logs)
            ELSE scalar_slow_loop(FAdd(polar_pow(zr, zi, x)[1], c_re),
                                  FAdd(polar_pow(zr, zi, x)[2], c_im),
                                  c_re, c_im, i + 1, K, x, Append(logs, mag2))
    ELSE [out |-> Cap(K), logs |-> logs]

scalar_multibrot_slow_kernel(IsJulia, re, imv, cr, ci, K, x) ==
    scalar_slow_loop(IF IsJulia THEN re ELSE 0, IF IsJulia THEN imv ELSE 0,
                     IF IsJulia THEN cr ELSE re, IF IsJulia THEN ci ELSE imv, 0, K, x, <<>>)

\* multibrot_slow_iter, multijulia_slow_iter
scalar_slow_iter(IsJulia, re, imv, jre, jim, K, x) ==
    IF IsJulia THEN scalar_multibrot_slow_kernel(TRUE, re, imv, jre, jim, K, x)
               ELSE scalar_multibrot_slow_kernel(FALSE, re, imv, 0, 0, K, x)

\* Registers at the loop's entry, with the arguments Sleef_logd4_u35 has been
\* called with in each lane.
avx_slow_seed(IsJulia, r0, sc, imv, c_re, c_im) ==
    LET s == avx_seed(IsJulia, r0, sc, imv, c_re, c_im)
    IN [cr |-> s.cr, ci |-> s.ci, zr |-> s.zr, zi |-> s.zi, active |-> s.active,
        iters_d |-> s.iters_d, final_r2 |-> s.final_r2, logs |-> Set1(<<>>)]

\* One lane of the polar-form z update for an exponent above 0.  For
\* mag2 = 0, log(0) = -inf makes r_n = exp(-inf) = 0 and the new z is c.
avx_slow_new_z(zr, zi, cr, ci, x) ==
    IF FAdd(FMul(zr, zr), FMul(zi, zi)) = 0 THEN <<cr, ci>>
    ELSE <<FAdd(polar_pow(zr, zi, x)[1], cr), FAdd(polar_pow(zr, zi, x)[2], ci)>>

\* The z update of avx_multibrot_slow_kernel: log_mag = Sleef_logd4_u35(mag2) * half
\* is computed in all 4 lanes, then r_n, theta, the new z, the blend and the
\* counter.  s carries the active mask the escape test has just computed.
avx_slow_update(x, s) ==
    [s EXCEPT
        !.logs = Vec(LAMBDA k :
                       Append(Lane(s.logs, k),
                              FAdd(FMul(Lane(s.zr, k), Lane(s.zr, k)),
                                   FMul(Lane(s.zi, k), Lane(s.zi, k))))),
        !.zr = Vec(LAMBDA k :
                     IF Lane(s.active, k)
                     THEN avx_slow_new_z(Lane(s.zr, k), Lane(s.zi, k),
                                         Lane(s.cr, k), Lane(s.ci, k), x)[1]
                     ELSE Lane(s.zr, k)),
        !.zi = Vec(LAMBDA k :
                     IF Lane(s.active, k)
                     THEN avx_slow_new_z(Lane(s.zr, k), Lane(s.zi, k),
                                         Lane(s.cr, k), Lane(s.ci, k), x)[2]
                     ELSE Lane(s.zi, k)),
        !.iters_d = Vec(LAMBDA k : FAdd(Lane(s.iters_d, k), CounterStep(Lane(s.active, k))))]

RECURSIVE avx_slow_loop(_, _, _, _)
avx_slow_loop(x, s, i, K) ==
    IF i < K
    THEN LET t == avx_escape_test(s)
         IN IF NoneActive(t) THEN t ELSE avx_slow_loop(x, avx_slow_update(x, t), i + 1, K)
    ELSE s

\* log_zn = Sleef_logd4_u35(final_r2) * half; ...; storeu(out4, result)
avx_slow_result(s, K, x) ==
    Vec(LAMBDA k :
          [out |-> IF Lane(s.active, k) THEN Cap(K)
                   ELSE SmoothX(Lane(s.iters_d, k), Lane(s.final_r2, k), x),
           logs |-> Append(Lane(s.logs, k), Lane(s.final_r2, k))])

avx_multibrot_slow_kernel(IsJulia, r0, sc, imv, K, x, c_re, c_im) ==
    avx_slow_result(avx_slow_loop(x, avx_slow_seed(IsJulia, r0, sc, imv, c_re, c_im), 0, K),
                    K, x)

\* avx_multibrot_slow_4, avx_multijulia_slow_4
avx_slow_4(IsJulia, r0, sc, imv, K, x, jre, jim) ==
    IF IsJulia THEN avx_multibrot_slow_kernel(TRUE, r0, sc, imv, K, x, jre, jim)
               ELSE avx_multibrot_slow_kernel(FALSE, r0, sc, imv, K, x, 0, 0)

\* ------------------------------------------------------------------------
\* Specification of the real-exponent formula: a group of 4 pixels by the
\* vector switch, then pixel by pixel by the scalar switch
\* ------------------------------------------------------------------------
\* Real exponents that are not promoted: 1, 2 + 1.1e-9, 3 - 1.1e-9.
SlowExponents == {Real(1, 0, 0), Real(2, 0, TolParts + 1), Real(3, 0, -TolParts - 1)}

InitSlow ==
    /\ RendererIdle
    /\ formula = "MultiSlow"
    /\ julia_mode \in BOOLEAN
    /\ \E c \in IF julia_mode THEN PowerJuliaConstants ELSE {<<0, 0>>} :
          /\ julia_re = c[1]
          /\ julia_im = c[2]
    /\ re0 \in PowerRe0s
    /\ scale \in Scales
    /\ im \in Ims
    /\ \E K \in Caps : max_iter = <<K>>
    /\ multibrot_exp = 2
    /\ multibrot_exp_f \in SlowExponents

\* The vector smooth switch of render_tile, case MultiSlow with slow_int_n = 0.
CallVectorSlow ==
    /\ log_args4 = <<>>
    /\ \E n \in CastToInt(StdRound(multibrot_exp_f)) :
          render_tile_slow_int_n(formula, multibrot_exp_f, n) = 0
    /\ log_args4' = avx_slow_4(julia_mode, re0, scale, im, max_iter[1], multibrot_exp_f,
                               julia_re, julia_im)
    /\ UNCHANGED <<smooth_conj, lyap_out, lyap_out4, log_args, orbit, lut_reads, kernel_run, guiVars>>
    /\ UNCHANGED <<poolVars, rendVars, histVars, kernVars, lifeVars, dispVars>>

\* The scalar switch of render_tile, case MultiSlow with slow_int_n = 0, for
\* the point of each of the 4 lanes.
CallScalarSlow ==
    /\ log_args4 # <<>>
    /\ log_args = <<>>
    /\ \E n \in CastToInt(StdRound(multibrot_exp_f)) :
          render_tile_slow_int_n(formula, multibrot_exp_f, n) = 0
    /\ log_args' = Vec(LAMBDA k :
                         scalar_slow_iter(julia_mode, Lane(re4(re0, scale), k), im,
                                          julia_re, julia_im, max_iter[1], multibrot_exp_f))
    /\ UNCHANGED <<smooth_conj, lyap_out, lyap_out4, log_args4, orbit, lut_reads, kernel_run, guiVars>>
    /\ UNCHANGED <<poolVars, rendVars, histVars, kernVars, lifeVars, dispVars>>

NextSlow ==
    \/ CallVectorSlow
    \/ CallScalarSlow

SpecSlow == InitSlow /\ [][NextSlow]_vars

\* C17: in every execution of a scalar or vector kernel no logarithm is
\* evaluated on a |z|^2 that is zero, the polar-form z update of the
\* real-exponent kernels included.
C17_NoLogOfZero ==
    /\ \A k \in DOMAIN log_args : \A j \in DOMAIN log_args[k].logs : log_args[k].logs[j] > 0
    /\ \A k \in DOMAIN log_args4 : \A j \in DOMAIN log_args4[k].logs : log_args4[k].logs[j] > 0

\* ------------------------------------------------------------------------
\* compute_orbit
\* ------------------------------------------------------------------------
\* The z update of compute_orbit for the formulas with an integer exponent;
\* its switch repeats the switch of scalar_lyapunov_iter case by case.
orbit_new_z(f, n, zr, zi, cr, ci) ==
    <<lyap_new_zr(f, n, zr, zi, cr), lyap_new_zi(f, n, zr, zi, ci)>>

\* zr*zr + zi*zi of a point
PointMag2(z) == FAdd(FMul(z[1], z[1]), FMul(z[2], z[2]))

\* for (int i = 0; i < max_n; ++i) { ...; pts.push_back({zr, zi});
\* if (zr*zr + zi*zi > 4.0) break; }: pts after the loop, entered with counter i.
RECURSIVE orbit_loop(_, _, _, _, _, _, _, _)
orbit_loop(f, n, z, cr, ci, i, max_n, pts) ==
    IF i < max_n
    THEN LET new_z == orbit_new_z(f, n, z[1], z[2], cr, ci)
         IN IF PointMag2(new_z) > Four THEN Append(pts, new_z)
            ELSE orbit_loop(f, n, new_z, cr, ci, i + 1, max_n, Append(pts, new_z))
    ELSE pts

compute_orbit(re, imv, f, IsJulia, jre, jim, e, max_n) ==
    LET z0 == IF IsJulia THEN <<re, imv>> ELSE <<0, 0>>
    IN orbit_loop(f, e, z0, IF IsJulia THEN jre ELSE re, IF IsJulia THEN jim ELSE imv,
                  0, max_n, <<z0>>)

\* Values of max_n.
MaxSteps == 0..MaxIter

InitOrbit ==
    /\ RendererIdle
    /\ formula \in LyapunovFormulas
    /\ julia_mode \in BOOLEAN
    /\ \E c \in IF julia_mode THEN PowerJuliaConstants ELSE {<<0, 0>>} :
          /\ julia_re = c[1]
          /\ julia_im = c[2]
    /\ re0 \in PowerRe0s
    /\ scale \in Scales
    /\ im \in Ims
    /\ max_iter = <<0>>
    /\ multibrot_exp \in IF formula \in PowerFormulas THEN IntExponents ELSE {2}
    /\ multibrot_exp_f = Real(3, 0, 0)

\* The caller asks for the orbit of one of the 4 points, with max_n steps.
CallComputeOrbit ==
    /\ orbit = <<>>
    /\ \E k \in Lanes : \E max_n \in MaxSteps :
          orbit' = [seed |-> <<Lane(re4(re0, scale), k), im>>,
                    max_n |-> max_n,
                    pts |-> compute_orbit(Lane(re4(re0, scale), k), im, formula, julia_mode,
                                          julia_re, julia_im, multibrot_exp, max_n)]
    /\ UNCHANGED <<smooth_conj, lyap_out, lyap_out4, log_args, log_args4, lut_reads, kernel_run, guiVars>>
    /\ UNCHANGED <<poolVars, rendVars, histVars, kernVars, lifeVars, dispVars>>

NextOrbit == CallComputeOrbit

SpecOrbit == InitOrbit /\ [][NextOrbit]_vars

\* C19: compute_orbit returns between 1 and max_steps + 1 points, the first
\* being the starting value z_0, and no returned point other than the last
\* one has |z|^2 > 4, in both seeding modes and for any seed.
C19_OrbitStopsAtFirstEscape ==
    orbit # <<>> =>
        /\ 1 <= Len(orbit.pts)
        /\ Len(orbit.pts) <= orbit.max_n + 1
        /\ orbit.pts[1] = IF julia_mode THEN orbit.seed ELSE <<0, 0>>
        /\ \A j \in 1..(Len(orbit.pts) - 1) : PointMag2(orbit.pts[j]) <= Four

\* ------------------------------------------------------------------------
\* palette_color and lyapunov_color
\* ------------------------------------------------------------------------
LUT_SIZE == 1024
SMOOTH_SCALE == 40
LYAP_SCALE == 200

\* static_cast<int>(v * s) for a double v (in units of 2^-FracBits) and a whole
\* factor s: the product, exact for the values used here, truncated towards 0.
ScaledInt(v, s) ==
    IF v >= 0 THEN (v * s) \div One ELSE -(((-v) * s) \div One)

\* a + b leaves the range of int.
AddOverflows(a, b) ==
    IF a >= 0 THEN b > IntMax - a ELSE b < IntMin - a

\* a % m of C++ for m > 0: the sign of the result is the sign of a
\* (a % m below is the least non-negative residue).
CRem(a, m) == IF a >= 0 \/ a % m = 0 THEN a % m ELSE (a % m) - m

\* Variant: a negative remainder is used as it is.
WrapNegative_None(idx) == idx

\* if (idx < 0) idx += LUT_SIZE;
WrapNegative(idx) == IF idx < 0 THEN idx + LUT_SIZE ELSE idx

\* int idx = (scaled + pal_offset) % LUT_SIZE; if (idx < 0) idx += LUT_SIZE;
\* the set of indexes g_palette_lut[palette] can be read at.  A signed
\* overflow of the sum is undefined: any index may result.
LutIndexes(scaled, pal_offset) ==
    IF AddOverflows(scaled, pal_offset) THEN {-LUT_SIZE, -1, 0, LUT_SIZE - 1, LUT_SIZE}
    ELSE {WrapNegative(CRem(scaled + pal_offset, LUT_SIZE))}

\* palette_color(smooth, max_iter, palette, pal_offset): the indexes the
\* table can be read at; none for an interior point.
palette_color(sm, K, pal_offset) ==
    IF sm >= FromInt(K) THEN {}
    ELSE LutIndexes(ScaledInt(sm, SMOOTH_SCALE), pal_offset)

\* lyapunov_color(lambda, palette, pal_offset)
lyapunov_color(lambda, pal_offset) ==
    LutIndexes(ScaledInt(lambda, LYAP_SCALE), pal_offset)

\* Smooth values from 0 to above the cap, Lyapunov exponents from -8 to 8,
\* and palette offsets: the slider's 0 .. LUT_SIZE - 1, negative ones, ones
\* beyond the table, and the ends of int.
SmoothValues == {RoundFloat(k, 0) : k \in 0..((MaxIter + 1) * One)}
LyapunovValues == {RoundFloat(k, 0) : k \in (-8 * One)..(8 * One)}
PalOffsets ==
    {0, 1, LUT_SIZE - 1, LUT_SIZE, 3 * LUT_SIZE + 5, -1, -LUT_SIZE, -LUT_SIZE - 7,
     IntMax, IntMin}

InitPalette ==
    /\ RendererIdle
    /\ formula = "Standard"
    /\ julia_mode = FALSE
    /\ julia_re = 0
    /\ julia_im = 0
    /\ re0 = 0
    /\ scale = 0
    /\ im = 0
    /\ \E K \in Caps : max_iter = <<K>>
    /\ multibrot_exp = 2
    /\ multibrot_exp_f = Real(3, 0, 0)

\* row[px] = palette_color(smooth, vs.max_iter, vs.palette, vs.pal_offset)
CallPaletteColor ==
    /\ lut_reads = <<>>
    /\ \E sm \in SmoothValues : \E off \in PalOffsets :
          \E idx \in IF palette_color(sm, max_iter[1], off) = {} THEN {LUT_SIZE}
                     ELSE palette_color(sm, max_iter[1], off) :
              lut_reads' = <<[fn |-> "palette_color", value |-> sm, pal_offset |-> off,
                              scaled |-> ScaledInt(sm, SMOOTH_SCALE),
                              read |-> palette_color(sm, max_iter[1], off) # {},
                              idx |-> idx]>>
    /\ UNCHANGED <<smooth_conj, lyap_out, lyap_out4, log_args, log_args4, orbit, kernel_run, guiVars>>
    /\ UNCHANGED <<poolVars, rendVars, histVars, kernVars, lifeVars, dispVars>>

\* row[px + k] = lyapunov_color(lyap4[k], vs.palette, vs.pal_offset)
CallLyapunovColor ==
    /\ lut_reads = <<>>
    /\ \E lambda \in LyapunovValues : \E off \in PalOffsets :
          \E idx \in lyapunov_color(lambda, off) :
              lut_reads' = <<[fn |-> "lyapunov_color", value |-> lambda, pal_offset |-> off,
                              scaled |-> ScaledInt(lambda, LYAP_SCALE),
                              read |-> TRUE, idx |-> idx]>>
    /\ UNCHANGED <<smooth_conj, lyap_out, lyap_out4, log_args, log_args4, orbit, kernel_run, guiVars>>
    /\ UNCHANGED <<poolVars, rendVars, histVars, kernVars, lifeVars, dispVars>>

NextPalette ==
    \/ CallPaletteColor
    \/ CallLyapunovColor

SpecPalette == InitPalette /\ [][NextPalette]_vars

\* The last call read the table, and its sum did not overflow.
LutReadDefined ==
    /\ lut_reads # <<>>
    /\ lut_reads[1].read
    /\ ~AddOverflows(lut_reads[1].scaled, lut_reads[1].pal_offset)

\* C20: for every smooth value in [0, K), every Lyapunov value and every
\* palette offset whose sum with the scaled value stays within int,
\* palette_color and lyapunov_color read the table only at an index in
\* 0 .. LUT_SIZE - 1, the index being the scaled value plus the offset
\* reduced modulo LUT_SIZE; and palette_color reads it for every smooth
\* value in [0, K).
C20_LutIndexInRange ==
    /\ LutReadDefined =>
          /\ lut_reads[1].idx \in 0..(LUT_SIZE - 1)
          /\ lut_reads[1].idx = (lut_reads[1].scaled + lut_reads[1].pal_offset) % LUT_SIZE
    /\ (lut_reads # <<>> /\ lut_reads[1].fn = "palette_color") =>
          (lut_reads[1].read <=> lut_reads[1].value < FromInt(max_iter[1]))

\* A negative Lyapunov exponent with a negative offset: the sum lies below
\* -LUT_SIZE, its remainder is negative and the index read is LUT_SIZE more.
C20_Witness ==
    /\ LutReadDefined
    /\ lut_reads[1].fn = "lyapunov_color"
    /\ lut_reads[1].value < 0
    /\ lut_reads[1].pal_offset < 0
    /\ lut_reads[1].scaled + lut_reads[1].pal_offset < -LUT_SIZE
    /\ CRem(lut_reads[1].scaled + lut_reads[1].pal_offset, LUT_SIZE) < 0
    /\ lut_reads[1].idx > LUT_SIZE \div 2

\* ------------------------------------------------------------------------
\* The loop of the vector kernels, iteration by iteration
\* ------------------------------------------------------------------------
\* Registers at the loop's entry of any of the kernel templates, with the
\* accumulators of ComputeLyapunov and the arguments of the logarithm.
avx_any_seed(IsJulia, r0, sc, imv, c_re, c_im) ==
    LET s == avx_seed(IsJulia, r0, sc, imv, c_re, c_im)
    IN [cr |-> s.cr, ci |-> s.ci, zr |-> s.zr, zi |-> s.zi, active |-> s.active,
        iters_d |-> s.iters_d, final_r2 |-> s.final_r2,
        terms |-> Set1(<<>>), mags |-> Set1(<<>>), logs |-> Set1(<<>>)]

\* The z update of the kernel the dispatch selects for formula f: the
\* real-exponent kernel, the integer-exponent kernel or the degree-2 kernel.
avx_any_update(f, e, x, t) ==
    IF f = "MultiSlow" THEN avx_slow_update(x, t)
    ELSE IF f \in {"Mandelbar", "MultiFast"} /\ e # 2
    THEN avx_multibrot_update(IsMandelbar(f), e, t)
    ELSE avx_update(IF f = "MultiFast" THEN "Standard" ELSE f, t)

\* One pass through the body of for (int i = 0; i < max_iter; ++i) of a
\* kernel: accumulation (ComputeLyapunov), escape test, break or z update.
avx_iteration(r, f, e, x, K) ==
    IF r.i >= K THEN [r EXCEPT !.done = TRUE]
    ELSE LET t == avx_escape_test(IF r.lyap THEN avx_lyap_accumulate(r.s, r.i) ELSE r.s)
         IN  IF NoneActive(t) THEN [r EXCEPT !.s = t, !.done = TRUE]
             ELSE [r EXCEPT !.s = avx_any_update(f, e, x, t), !.i = @ + 1]

LaneFormulas == Formulas \cup {"MultiFast", "MultiSlow"}

InitLanes ==
    /\ RendererIdle
    /\ formula \in LaneFormulas
    /\ julia_mode \in BOOLEAN
    /\ \E c \in IF julia_mode THEN PowerJuliaConstants ELSE {<<0, 0>>} :
          /\ julia_re = c[1]
          /\ julia_im = c[2]
    /\ re0 \in PowerRe0s
    /\ scale \in Scales
    /\ im \in Ims
    /\ max_iter = <<MaxIter>>
    /\ multibrot_exp \in IF formula \in {"Mandelbar", "MultiFast"} THEN IntExponents ELSE {2}
    /\ multibrot_exp_f \in IF formula = "MultiSlow" THEN SlowExponents ELSE {Real(3, 0, 0)}

\* A kernel is entered for the group of 4 pixels, with or without
\* ComputeLyapunov.
KernelEnter ==
    /\ kernel_run = <<>>
    /\ \E lyap \in BOOLEAN :
          kernel_run' = <<[s |-> IF julia_mode
                                 THEN avx_any_seed(TRUE, re0, scale, im, julia_re, julia_im)
                                 ELSE avx_any_seed(FALSE, re0, scale, im, 0, 0),
                           i |-> 0, lyap |-> lyap, done |-> FALSE]>>
    /\ UNCHANGED <<smooth_conj, lyap_out, lyap_out4, log_args, log_args4, orbit, lut_reads,
                   guiVars>>
    /\ UNCHANGED <<poolVars, rendVars, histVars, kernVars, lifeVars, dispVars>>

\* The loop runs one more iteration.
KernelIterate ==
    /\ kernel_run # <<>>
    /\ ~kernel_run[1].done
    /\ kernel_run' = <<avx_iteration(kernel_run[1], formula, multibrot_exp,
                                     multibrot_exp_f, max_iter[1])>>
    /\ UNCHANGED <<smooth_conj, lyap_out, lyap_out4, log_args, log_args4, orbit, lut_reads,
                   guiVars>>
    /\ UNCHANGED <<poolVars, rendVars, histVars, kernVars, lifeVars, dispVars>>

NextLanes ==
    \/ KernelEnter
    \/ KernelIterate

SpecLanes == InitLanes /\ [][NextLanes]_vars

\* |z|^2 of lane k of the registers s.
LaneMag2(s, k) == FAdd(FMul(Lane(s.zr, k), Lane(s.zr, k)), FMul(Lane(s.zi, k), Lane(s.zi, k)))

\* What one iteration may do to lane k, from registers s to registers t.
LaneStep(s, t, k, advanced) ==
    /\ Lane(t.active, k) => Lane(s.active, k)
    /\ ~Lane(s.active, k) =>
          /\ Lane(t.zr, k) = Lane(s.zr, k)
          /\ Lane(t.zi, k) = Lane(s.zi, k)
          /\ Lane(t.iters_d, k) = Lane(s.iters_d, k)
          /\ Lane(t.final_r2, k) = Lane(s.final_r2, k)
    /\ Lane(t.final_r2, k) # Lane(s.final_r2, k) =>
          /\ Lane(s.active, k)
          /\ ~Lane(t.active, k)
    /\ (Lane(s.active, k) /\ ~Lane(t.active, k)) =>
          /\ Lane(t.final_r2, k) = LaneMag2(s, k)
          /\ Lane(t.final_r2, k) > Four
          /\ Lane(t.zr, k) = Lane(s.zr, k)
          /\ Lane(t.zi, k) = Lane(s.zi, k)
          /\ Lane(t.iters_d, k) = Lane(s.iters_d, k)
    /\ (Lane(t.active, k) /\ advanced) =>
          /\ Lane(t.iters_d, k) = Lane(s.iters_d, k) + One
          /\ Lane(t.final_r2, k) = Four

\* C24: in every vector kernel, in every iteration of a call, the set of
\* active lanes only shrinks, a lane's final |z|^2 is written only in the
\* iteration in which the lane escapes (so at most once), an escaped lane's
\* z and counter never change again, and the lanes still active advance.
C24_EscapedLanesFrozen ==
    [][(kernel_run # <<>> /\ kernel_run' # <<>>) =>
          \A k \in Lanes :
              LaneStep(kernel_run[1].s, kernel_run'[1].s, k,
                       kernel_run'[1].i = kernel_run[1].i + 1)]_vars

\* Some lane escaped at least two iterations before the current one and has
\* kept its counter, while another lane is still active and has advanced.
C24_Witness ==
    /\ kernel_run # <<>>
    /\ \E k, j \in Lanes :
          /\ ~Lane(kernel_run[1].s.active, k)
          /\ Lane(kernel_run[1].s.final_r2, k) > Four
          /\ Lane(kernel_run[1].s.active, j)
          /\ Lane(kernel_run[1].s.iters_d, j) >= Lane(kernel_run[1].s.iters_d, k) + Two
          /\ Lane(kernel_run[1].s.iters_d, j) = FromInt(kernel_run[1].i)

\* ------------------------------------------------------------------------
\* Specification of the routing: the three switches select a kernel for one
\* configuration, and the kernel the vector switch selected runs on a group
\* of 4 pixels, iteration by iteration
\* ------------------------------------------------------------------------
RoutingRe0s == {-One, -(One \div 2), 0}
RoutingIms == {One \div 4, One \div 2, One}
RoutingRealExponents == {Real(2, 0, 0), Real(3, 0, 0), Real(2, 1, 0)}

\* The formula whose vector kernel is the instantiation `call`.
KernelFormula(call) ==
    IF call.template = "multibrot_slow_kernel" THEN "MultiSlow"
    ELSE IF call.template = "multibrot_kernel"
    THEN IF call.IsMandelbar THEN "Mandelbar" ELSE "MultiFast"
    ELSE IF call.IsBurningShip THEN "BurningShip"
    ELSE IF call.IsMandelbar THEN "Mandelbar"
    ELSE IF call.AbsIm THEN "Buffalo"
    ELSE IF call.AbsRe THEN "Celtic"
    ELSE "Standard"

InitRouting ==
    /\ RendererIdle
    /\ formula \in FormulaTypes
    /\ julia_mode \in BOOLEAN
    /\ \E c \in IF julia_mode THEN PowerJuliaConstants ELSE {<<0, 0>>} :
          /\ julia_re = c[1]
          /\ julia_im = c[2]
    /\ re0 \in RoutingRe0s
    /\ scale = One \div 4
    /\ im \in RoutingIms
    /\ max_iter = <<MaxIter>>
    /\ multibrot_exp \in IntExponents
    /\ multibrot_exp_f \in IF formula = "MultiSlow" THEN RoutingRealExponents
                                                    ELSE {Real(3, 0, 0)}

\* render_tile calls the entry point the vector switch selected.
RoutedEnter ==
    /\ vector_call # <<>>
    /\ kernel_run = <<>>
    /\ kernel_run' = <<[s |-> IF vector_call[1].IsJulia
                              THEN avx_any_seed(TRUE, re0, scale, im, julia_re, julia_im)
                              ELSE avx_any_seed(FALSE, re0, scale, im, 0, 0),
                        i |-> 0, lyap |-> FALSE, done |-> FALSE]>>
    /\ UNCHANGED <<smooth_conj, lyap_out, lyap_out4, log_args, log_args4, orbit, lut_reads,
                   guiVars>>
    /\ UNCHANGED <<poolVars, rendVars, histVars, kernVars, lifeVars, dispVars>>

\* The loop of the selected kernel runs one more iteration.
RoutedIterate ==
    /\ vector_call # <<>>
    /\ kernel_run # <<>>
    /\ ~kernel_run[1].done
    /\ kernel_run' = <<avx_iteration(kernel_run[1], KernelFormula(vector_call[1]),
                                     vector_call[1].n, vector_call[1].exp_n, max_iter[1])>>
    /\ UNCHANGED <<smooth_conj, lyap_out, lyap_out4, log_args, log_args4, orbit, lut_reads,
                   guiVars>>
    /\ UNCHANGED <<poolVars, rendVars, histVars, kernVars, lifeVars, dispVars>>

NextRouting ==
    \/ TileSlowIntN
    \/ TileVectorSwitch
    \/ TileScalarSwitch
    \/ CallLyapunov4
    \/ RoutedEnter
    \/ RoutedIterate

SpecRouting == InitRouting /\ [][NextRouting]_vars

\* The exponent of the configuration: multibrot_exp for the formulas with an
\* integer exponent, the promoted exponent for the real-exponent formula, 2
\* for the others.
ConfiguredExponent ==
    IF formula \in PowerFormulas THEN multibrot_exp
    ELSE IF formula = "MultiSlow" THEN slow_int_n[1]
    ELSE 2

\* The three switches selected the same instantiation, with the seeding
\* mode and the exponent of the configuration.
SameKernelSelected ==
    (scalar_call # <<>> /\ vector_call # <<>> /\ lyap_call # <<>>) =>
        /\ scalar_call = vector_call
        /\ vector_call = lyap_call
        /\ vector_call[1].IsJulia = julia_mode
        /\ vector_call[1].n = ConfiguredExponent
        /\ vector_call[1].template = "kernel" <=> ConfiguredExponent = 2

\* z after one pass through the body of the integer-exponent kernel for
\* exponent n, entered with z = (zr, zi) and constant (cr, ci).
IntegerExpNextZ(mb, n, zr, zi, cr, ci) ==
    <<FAdd(complex_pow(zr, zi, zr, zi, 1, n)[1], cr),
      multibrot_new_zi(mb, complex_pow(zr, zi, zr, zi, 1, n)[2], ci)>>

\* The same for the degree-2 scalar kernel of formula f.
ScalarNextZ(f, zr, zi, cr, ci) ==
    <<scalar_new_zr(f, FMul(zr, zr), FMul(zi, zi), cr), scalar_new_zi(f, zr, zi, ci)>>

\* Exponent 2 of a formula with an exponent was routed to the degree-2
\* kernel, and the step from kernel_run to kernel_run' is a z update.
RoutedDegreeTwoStep ==
    /\ formula \in PowerFormulas \cup {"MultiSlow"}
    /\ vector_call # <<>>
    /\ vector_call[1].template = "kernel"
    /\ kernel_run # <<>>
    /\ kernel_run' # <<>>
    /\ kernel_run'[1].i = kernel_run[1].i + 1

\* Lane k of the step got the z the integer-exponent kernel computes for
\* n = 2, and so does the pixel of lane k in the degree-2 scalar kernel.
LaneAsIntegerExp(s, t, k) ==
    Lane(t.active, k) =>
        LET want == IntegerExpNextZ(vector_call[1].IsMandelbar, 2, Lane(s.zr, k),
                                    Lane(s.zi, k), Lane(s.cr, k), Lane(s.ci, k))
        IN  /\ <<Lane(t.zr, k), Lane(t.zi, k)>> = want
            /\ ScalarNextZ(KernelFormula(vector_call[1]), Lane(s.zr, k), Lane(s.zi, k),
                           Lane(s.cr, k), Lane(s.ci, k)) = want

\* C25: for every formula, seeding mode and integer exponent, the scalar
\* switch, the vector smooth switch and the Lyapunov dispatch select kernels
\* with the same update rule, seeding mode and exponent; and where exponent 2
\* is routed to the degree-2 kernel, every z update of that kernel gives the
\* z the integer-exponent kernel gives for n = 2.
C25_RoutingEquivalent ==
    /\ []SameKernelSelected
    /\ [][RoutedDegreeTwoStep =>
             \A k \in Lanes :
                 LaneAsIntegerExp(kernel_run[1].s, kernel_run'[1].s, k)]_vars

\* ------------------------------------------------------------------------
\* The application state around the renderer (AppState): the main view and
\* the benchmark dialog
\* ------------------------------------------------------------------------
\* CpuRenderer::CpuRenderer() has returned on a machine with or without
\* vector support, and nothing has been rendered.
RendererBuilt ==
    /\ \E hc \in HardwareConcurrency : workers = 1..DetectedThreads(hc)
    /\ tasks = <<>>
    /\ pending = 0
    /\ stopping = FALSE
    /\ mtx = NoOwner
    /\ cv_task = {}
    /\ cv_done = {}
    /\ wpc = [w \in workers |-> "lock"]
    /\ wtask = [w \in workers |-> NoTask]
    /\ use_avx2 \in BOOLEAN
    /\ avx2_active = use_avx2
    /\ cpu_has_avx2 = use_avx2
    /\ TILE_W = 64
    /\ TILE_H = 64
    /\ vs = 0
    /\ bufW = 0
    /\ bufH = 0
    /\ pixels = <<>>
    /\ tx = 0
    /\ ty = 0
    /\ submitted = 0
    /\ tiles = <<>>
    /\ ran = <<>>
    /\ wcount = <<>>
    /\ waited = FALSE
    /\ reused = FALSE
    /\ spurious = 0
    /\ KernelIdle
    /\ FirstPool
    /\ DispatchIdle
    /\ ObsIdle

\* No benchmark has been started: the statics of draw_benchmark_dialog have
\* their initialisers.
BenchIdle ==
    /\ popup_open = FALSE
    /\ bench_running = FALSE
    /\ bench_done = FALSE
    /\ bench_phase = 0
    /\ bench_ti = 0
    /\ bench_rep = 0
    /\ bench_saved_tc = 0
    /\ bench_saved_a2 = FALSE
    /\ bench_avx2 = <<>>
    /\ bench_scalar = <<>>
    /\ bench_log = <<>>
    /\ at_run = <<>>
    /\ has_avx2 = FALSE
    /\ cli_test = 0

\* The variables of this section that the actions on the main view and on
\* the renderer's flags leave alone.
benchStatics == <<bench_running, bench_done, bench_phase, bench_ti, bench_rep,
                  bench_saved_tc, bench_saved_a2, bench_avx2, bench_scalar, bench_log,
                  at_run>>

\* ------------------------------------------------------------------------
\* reset_view_keep_params (view_state.hpp)
\* ------------------------------------------------------------------------
\* inline ViewState default_view_for(FractalType) { return ViewState{}; }
default_view_for(ft) == ViewStateDefault

\* Variant: the iteration limit is not among the saved members.
reset_view_keep_params_DropsIter(v, new_ft) ==
    [default_view_for(new_ft) EXCEPT
        !.fractal = new_ft,
        !.julia_re = v.julia_re,
        !.julia_im = v.julia_im,
        !.palette = v.palette,
        !.pal_offset = v.pal_offset,
        !.multibrot_exp = v.multibrot_exp,
        !.multibrot_exp_f = v.multibrot_exp_f]

\* reset_view_keep_params(vs, new_ft): the seven members are copied to
\* locals, vs = default_view_for(new_ft), then vs.fractal = new_ft and the
\* seven members are assigned back.
reset_view_keep_params(v, new_ft) ==
    [default_view_for(new_ft) EXCEPT
        !.fractal = new_ft,
        !.julia_re = v.julia_re,
        !.julia_im = v.julia_im,
        !.palette = v.palette,
        !.pal_offset = v.pal_offset,
        !.multibrot_exp = v.multibrot_exp,
        !.multibrot_exp_f = v.multibrot_exp_f,
        !.max_iter = v.max_iter]

\* States of the main view before the call: every member at its default or
\* at one other value, under every fractal type.
ViewStates ==
    [center_x : {0, -50000}, center_y : {0, 12500}, view_width : {400000, 1},
     max_iter : {256, 8192}, fractal : FractalTypes, julia_re : {-70000, 0},
     julia_im : {27015, -100000}, palette : {7, 0}, pal_offset : {0, 1023},
     multibrot_exp : {2, 8},
     multibrot_exp_f : {[w |-> 3, h |-> 0, d |-> 0], [w |-> 2, h |-> 1, d |-> 0]}]

InitView ==
    /\ RendererBuilt
    /\ mpc = "idle"
    /\ BenchIdle
    /\ view \in ViewStates
    /\ view_call = <<>>
    /\ dirty = FALSE

\* A caller (menu entry, key R) resets the main view for fractal type new_ft.
CallResetView ==
    /\ view_call = <<>>
    /\ \E new_ft \in FractalTypes :
          /\ view' = reset_view_keep_params(view, new_ft)
          /\ view_call' = <<[vs |-> view, new_ft |-> new_ft]>>
    /\ UNCHANGED <<dirty, popup_open, bench_running, bench_done, bench_phase, bench_ti,
                   bench_rep, bench_saved_tc, bench_saved_a2, bench_avx2, bench_scalar,
                   cpu_has_avx2, bench_log, at_run, has_avx2, cli_test>>
    /\ UNCHANGED <<poolVars, rendVars, histVars, kernVars, lifeVars, dispVars, obsVars>>

NextView == CallResetView

SpecView == InitView /\ [][NextView]_vars

\* C22: after reset_view_keep_params(vs, ft) the center is (0, 0), the view
\* width is 4.0 and the fractal type is ft, while the Julia parameter, the
\* palette, the palette offset, the integer exponent, the real exponent and
\* the iteration cap are those of vs before the call, for every prior state.
C22_ResetKeepsParams ==
    view_call # <<>> =>
        /\ view.center_x = 0
        /\ view.center_y = 0
        /\ view.view_width = 400000
        /\ view.fractal = view_call[1].new_ft
        /\ view.julia_re = view_call[1].vs.julia_re
        /\ view.julia_im = view_call[1].vs.julia_im
        /\ view.palette = view_call[1].vs.palette
        /\ view.pal_offset = view_call[1].vs.pal_offset
        /\ view.multibrot_exp = view_call[1].vs.multibrot_exp
        /\ view.multibrot_exp_f = view_call[1].vs.multibrot_exp_f
        /\ view.max_iter = view_call[1].vs.max_iter

\* The call was made on a view none of whose members had its default, for
\* another fractal type than the current one.
C22_Witness ==
    /\ view_call # <<>>
    /\ view_call[1].new_ft # view_call[1].vs.fractal
    /\ \A m \in DOMAIN ViewStateDefault \ {"fractal"} :
          view_call[1].vs[m] # ViewStateDefault[m]
    /\ view.max_iter # ViewStateDefault.max_iter
    /\ view.center_x # view_call[1].vs.center_x

\* ------------------------------------------------------------------------
\* The benchmark dialog (draw_benchmark_dialog) and the CLI benchmark
\* (run_cli_benchmark)
\* ------------------------------------------------------------------------
\* The renderer's public fields, app.dirty and the statics of the dialog,
\* as one frame of draw_benchmark_dialog reads and writes them.
BenchState ==
    [thread_count |-> thread_count, use_avx2 |-> use_avx2, avx2_active |-> avx2_active,
     dirty |-> dirty, bench_running |-> bench_running, bench_done |-> bench_done,
     bench_phase |-> bench_phase, bench_ti |-> bench_ti, bench_rep |-> bench_rep,
     bench_saved_tc |-> bench_saved_tc, bench_saved_a2 |-> bench_saved_a2,
     bench_avx2 |-> bench_avx2, bench_scalar |-> bench_scalar, bench_log |-> bench_log,
     at_run |-> at_run]

\* set_thread_count(n): if (n < 1) n = hw_concurrency; pool = ...; thread_count = n;
set_thread_count(b, n, hw) == [b EXCEPT !.thread_count = ThreadCountFor(n, hw)]

\* void set_avx2(bool b) { use_avx2 = b; avx2_active = b; }
set_avx2(b, flag) == [b EXCEPT !.use_avx2 = flag, !.avx2_active = flag]

\* app.renderer.render(bvs, bench_buf): avx2_active = use_avx2, then the
\* 1920 x 1080 raster is rendered on the current pool and path.
bench_render(b) ==
    [b EXCEPT !.avx2_active = b.use_avx2,
              !.bench_log = Append(@, [phase |-> b.bench_phase,
                                       threads |-> b.thread_count,
                                       avx2 |-> b.use_avx2])]

\* bench_avx2[bench_ti] = mpixs: the number of stores per element; an index
\* outside the vector leaves every element marked -1.
StoreResult(vec, i) ==
    IF i >= 0 /\ i < Len(vec)
    THEN [vec EXCEPT ![i + 1] = @ + 1]
    ELSE [k \in DOMAIN vec |-> -1]

\* Variant: five repetitions per thread count.
RepsDone_Five(rep) == rep = 5

\* if (bench_rep == 4)
RepsDone(rep) == rep = 4

\* Variant: the hardware thread count is saved instead of the current one.
SavedThreadCount_Hardware(b, hw) == hw

\* bench_saved_tc = app.renderer.thread_count;
SavedThreadCount(b, hw) == b.thread_count

\* app.renderer.set_thread_count(bench_saved_tc);
\* app.renderer.set_avx2(bench_saved_a2); app.dirty = true;
bench_restore(b, hw) ==
    [set_avx2(set_thread_count(b, b.bench_saved_tc, hw), b.bench_saved_a2)
        EXCEPT !.dirty = TRUE]

\* if (bench_rep == 4) { ... }: the result is stored, the thread index
\* advances, and after the last thread count the phase advances or the run
\* ends.
bench_advance(b, hw) ==
    LET stored == IF b.bench_phase = 0
                  THEN [b EXCEPT !.bench_avx2 = StoreResult(@, b.bench_ti)]
                  ELSE [b EXCEPT !.bench_scalar = StoreResult(@, b.bench_ti)]
        nextti == [stored EXCEPT !.bench_rep = 0, !.bench_ti = @ + 1]
        nextph == [nextti EXCEPT !.bench_ti = 0, !.bench_phase = @ + 1]
    IN  IF nextti.bench_ti # hw THEN nextti
        ELSE IF nextph.bench_phase # 2 THEN nextph
        ELSE bench_restore([nextph EXCEPT !.bench_running = FALSE,
                                          !.bench_done = TRUE], hw)

\* if (bench_running) { ... }: one render step per frame while running.
bench_step(b, hw) ==
    IF ~b.bench_running THEN b
    ELSE LET r == bench_render(set_avx2(set_thread_count(b, b.bench_ti + 1, hw),
                                        b.bench_phase = 0))
             counted == [r EXCEPT !.bench_rep = @ + 1]
         IN  IF RepsDone(counted.bench_rep) THEN bench_advance(counted, hw) ELSE counted

\* if (!bench_running) { if (ImGui::Button(bench_done ? "Run again" : "Run")) { ... } }
bench_run_button(b, hw, clicked) ==
    IF b.bench_running \/ ~clicked THEN b
    ELSE [b EXCEPT !.bench_avx2 = [k \in 1..hw |-> 0],
                   !.bench_scalar = [k \in 1..hw |-> 0],
                   !.bench_phase = 0,
                   !.bench_ti = 0,
                   !.bench_rep = 0,
                   !.bench_done = FALSE,
                   !.bench_saved_tc = SavedThreadCount(b, hw),
                   !.bench_saved_a2 = b.avx2_active,
                   !.bench_running = TRUE,
                   !.bench_log = <<>>,
                   !.at_run = <<[tc |-> b.thread_count, a2 |-> b.use_avx2]>>]

\* if (ImGui::Button("Close") || ImGui::IsKeyPressed(ImGuiKey_Escape)) { ... }
bench_close(b, hw, clicked) ==
    IF clicked /\ b.bench_running
    THEN bench_restore([b EXCEPT !.bench_running = FALSE], hw)
    ELSE b

\* One call of draw_benchmark_dialog with the popup open.
bench_frame(b, hw, run_clicked, close_clicked) ==
    bench_close(bench_run_button(bench_step(b, hw), hw, run_clicked), hw, close_clicked)

\* tests[]: the force_scalar member of the entries, in order.
CliForceScalar ==
    <<FALSE, FALSE, FALSE, FALSE, FALSE, FALSE, FALSE, FALSE,
      TRUE, TRUE, TRUE, TRUE, TRUE, TRUE, TRUE, TRUE>>

\* The program has started and its CpuRenderer is constructed; main has not
\* yet chosen between the window and the CLI benchmark.
InitBench ==
    /\ RendererBuilt
    /\ BenchIdle
    /\ mpc = "main"
    /\ view = ViewStateDefault
    /\ view_call = <<>>
    /\ dirty = TRUE

\* The pool variables after pool = std::make_unique<ThreadPool>(n).
PoolRebuilt(n) ==
    /\ workers' = 1..n
    /\ wpc' = [w \in 1..n |-> "lock"]
    /\ wtask' = [w \in 1..n |-> NoTask]
    /\ UNCHANGED <<tasks, pending, stopping, mtx, cv_task, cv_done>>

\* The variables no action of the benchmark specification changes.
benchFrame == <<TILE_W, TILE_H, vs, bufW, bufH, pixels, tx, ty, histVars, kernVars,
                hw_concurrency, old_wpc, old_stopping, old_cv_task, inflight, stop_wpc, stop_queue,
                stc_arg, stc_n, dispVars, obsVars, view, view_call, cpu_has_avx2>>

\* main enters the frame loop of the window.
GuiStart ==
    /\ mpc = "main"
    /\ mpc' = "idle"
    /\ UNCHANGED <<poolVars, use_avx2, avx2_active, thread_count, dirty, popup_open,
                   benchStatics, has_avx2, cli_test>>
    /\ UNCHANGED benchFrame

\* Main fractal render of a frame: if (dirty || ...) { renderer.render(vs, pbuf); dirty = false; }
MainRender ==
    /\ mpc = "idle"
    /\ dirty
    /\ avx2_active' = use_avx2
    /\ dirty' = FALSE
    /\ UNCHANGED <<poolVars, use_avx2, thread_count, mpc, popup_open, benchStatics,
                   has_avx2, cli_test>>
    /\ UNCHANGED benchFrame

\* Menu Threads: "Auto" calls set_thread_count(0), entry i calls
\* set_thread_count(i); the menu bar is not reachable under the modal popup.
MenuSetThreadCount ==
    /\ mpc = "idle"
    /\ ~popup_open
    /\ \E n \in 0..hw_concurrency :
          /\ thread_count' = ThreadCountFor(n, hw_concurrency)
          /\ PoolRebuilt(ThreadCountFor(n, hw_concurrency))
    /\ dirty' = TRUE
    /\ UNCHANGED <<use_avx2, avx2_active, mpc, popup_open, benchStatics, has_avx2, cli_test>>
    /\ UNCHANGED benchFrame

\* Help > Benchmark or key B sets show_benchmark; the next call of
\* draw_benchmark_dialog opens the popup.
OpenBenchmark ==
    /\ mpc = "idle"
    /\ ~popup_open
    /\ popup_open' = TRUE
    /\ UNCHANGED <<poolVars, use_avx2, avx2_active, thread_count, mpc, dirty,
                   benchStatics, has_avx2, cli_test>>
    /\ UNCHANGED benchFrame

\* One frame of draw_benchmark_dialog with the popup open; Run and Close /
\* Escape may or may not be pressed in it.
BenchFrame ==
    /\ mpc = "idle"
    /\ popup_open
    /\ \E run_clicked, close_clicked \in BOOLEAN :
          LET b == bench_frame(BenchState, hw_concurrency, run_clicked, close_clicked)
          IN  /\ thread_count' = b.thread_count
              /\ PoolRebuilt(b.thread_count)
              /\ use_avx2' = b.use_avx2
              /\ avx2_active' = b.avx2_active
              /\ dirty' = b.dirty
              /\ bench_running' = b.bench_running
              /\ bench_done' = b.bench_done
              /\ bench_phase' = b.bench_phase
              /\ bench_ti' = b.bench_ti
              /\ bench_rep' = b.bench_rep
              /\ bench_saved_tc' = b.bench_saved_tc
              /\ bench_saved_a2' = b.bench_saved_a2
              /\ bench_avx2' = b.bench_avx2
              /\ bench_scalar' = b.bench_scalar
              /\ bench_log' = b.bench_log
              /\ at_run' = b.at_run
              /\ popup_open' = ~close_clicked
    /\ UNCHANGED <<mpc, has_avx2, cli_test>>
    /\ UNCHANGED benchFrame

\* run_cli_benchmark: renderer.set_thread_count(1); ...;
\* const bool has_avx2 = renderer.avx2_active;
CliStart ==
    /\ mpc = "main"
    /\ thread_count' = ThreadCountFor(1, hw_concurrency)
    /\ PoolRebuilt(ThreadCountFor(1, hw_concurrency))
    /\ has_avx2' = avx2_active
    /\ cli_test' = 0
    /\ mpc' = "cli_tests"
    /\ UNCHANGED <<use_avx2, avx2_active, dirty, popup_open, benchStatics>>
    /\ UNCHANGED benchFrame

\* One iteration of for (const auto& t : tests): the path is chosen with
\* set_avx2, then the warm-up and the timed renders run.
CliTest ==
    /\ mpc = "cli_tests"
    /\ cli_test < Len(CliForceScalar)
    /\ LET b == bench_render(set_avx2(BenchState,
                                      IF CliForceScalar[cli_test + 1] THEN FALSE
                                      ELSE has_avx2))
       IN  /\ use_avx2' = b.use_avx2
           /\ avx2_active' = b.avx2_active
    /\ cli_test' = cli_test + 1
    /\ UNCHANGED <<poolVars, thread_count, mpc, dirty, popup_open, benchStatics, has_avx2>>
    /\ UNCHANGED benchFrame

\* renderer.set_avx2(has_avx2);  // restore
CliEnd ==
    /\ mpc = "cli_tests"
    /\ cli_test = Len(CliForceScalar)
    /\ use_avx2' = set_avx2(BenchState, has_avx2).use_avx2
    /\ avx2_active' = set_avx2(BenchState, has_avx2).avx2_active
    /\ mpc' = "cli_done"
    /\ UNCHANGED <<poolVars, thread_count, dirty, popup_open, benchStatics, has_avx2,
                   cli_test>>
    /\ UNCHANGED benchFrame

NextBench ==
    \/ GuiStart
    \/ MainRender
    \/ MenuSetThreadCount
    \/ OpenBenchmark
    \/ BenchFrame
    \/ CliStart
    \/ CliTest
    \/ CliEnd

SpecBench == InitBench /\ [][NextBench]_vars

\* The render the schedule of the benchmark puts at position i of a run on
\* hw hardware threads: phase 0 (vector) then phase 1 (scalar), in each phase
\* the thread counts 1..hw, 4 renders each.
ScheduledRender(i, hw) ==
    [phase |-> (i - 1) \div (4 * hw),
     threads |-> (((i - 1) % (4 * hw)) \div 4) + 1,
     avx2 |-> (i - 1) \div (4 * hw) = 0]

\* A run that was started and not ended by Close has followed the schedule
\* so far: its renders, the results stored and the point where it stops.
ScheduleFollowed ==
    (bench_running \/ bench_done) =>
        /\ Len(bench_log) = bench_phase * hw_concurrency * 4 + bench_ti * 4 + bench_rep
        /\ \A i \in 1..Len(bench_log) : bench_log[i] = ScheduledRender(i, hw_concurrency)
        /\ Len(bench_avx2) = hw_concurrency
        /\ Len(bench_scalar) = hw_concurrency
        /\ \A k \in 1..hw_concurrency :
              /\ bench_avx2[k] = IF Len(bench_log) >= 4 * k THEN 1 ELSE 0
              /\ bench_scalar[k] =
                    IF Len(bench_log) >= 4 * hw_concurrency + 4 * k THEN 1 ELSE 0
        /\ bench_running => (~bench_done /\ Len(bench_log) < 8 * hw_concurrency)
        /\ bench_done => (~bench_running /\ Len(bench_log) = 8 * hw_concurrency)

\* A frame of the dialog during a run (a step that changes the dialog's
\* state) performs exactly one render; the log is emptied only by Run.
OneRenderPerFrame ==
    (bench_running /\ <<benchStatics, popup_open>>' # <<benchStatics, popup_open>>) =>
        \/ Len(bench_log') = Len(bench_log) + 1
        \/ bench_log' = <<>> /\ Len(bench_log) = 8 * hw_concurrency - 1

\* C23: once Run is pressed and unless Close is pressed, the dialog performs
\* one render per frame, vector phase then scalar phase, thread counts
\* 1..hw in each phase, 4 consecutive renders per thread count; it stores
\* exactly one result per (phase, thread count), at an index < hw, and stops
\* with running false and done true after exactly 8*hw renders.
C23_BenchmarkSchedule == []ScheduleFollowed /\ [][OneRenderPerFrame]_vars

\* A run on two or more hardware threads has completed all its renders.
C23_Witness ==
    /\ bench_done
    /\ ~bench_running
    /\ hw_concurrency >= 2
    /\ Len(bench_log) = 8 * hw_concurrency
    /\ bench_log[Len(bench_log)] = [phase |-> 1, threads |-> hw_concurrency, avx2 |-> FALSE]
    /\ \A k \in 1..hw_concurrency : bench_avx2[k] = 1 /\ bench_scalar[k] = 1

\* C29: the vector path is enabled only if vector support was detected at
\* construction, after any sequence of setter calls by the benchmark dialog
\* and the CLI benchmark, set_thread_count and render.
C29_VectorOnlyIfSupported == use_avx2 => cpu_has_avx2

\* A step in which a run ends: by its last render, by Close or Escape, or by
\* Run pressed again in the frame of the last render.
RunEnds ==
    /\ bench_running
    /\ ~bench_running' \/ (bench_log # <<>> /\ bench_log' = <<>>)

\* C30: when a benchmark run ends, by completing its renders or by Close or
\* Escape while running, the renderer's thread count and vector flag are
\* those of the moment Run was pressed and the main view is marked dirty,
\* in the first run and in every later one.
C30_RunEndRestores ==
    [][RunEnds => /\ thread_count' = at_run[1].tc
                  /\ use_avx2' = at_run[1].a2
                  /\ avx2_active' = at_run[1].a2
                  /\ dirty']_vars

\* A run started with the vector path on and fewer threads than the
\* hardware has was closed in its scalar phase, after an earlier render of
\* the main view had cleared the dirty flag: the settings are back.
C30_Witness ==
    /\ ~bench_running
    /\ ~bench_done
    /\ ~popup_open
    /\ at_run # <<>>
    /\ at_run[1].a2
    /\ at_run[1].tc < hw_concurrency
    /\ Len(bench_log) > 4 * hw_concurrency
    /\ ~bench_log[Len(bench_log)].avx2
    /\ bench_log[Len(bench_log)].threads # at_run[1].tc
    /\ thread_count = at_run[1].tc
    /\ use_avx2
    /\ dirty

====
